---- MODULE Spec2Model ----
(***************************************************************************)
(* Query-resolution cascade of the teaching calculator:                    *)
(*   MathQueryRouter / CalculatorEngine   scripts/cascade/calculator_engine.py *)
(*   QueryCache / SmartCache              scripts/cascade/query_cache.py   *)
(*   WolframAlphaHandler                  scripts/cascade/wolfram_handler.py *)
(*   WolframCache, UsageTracker           scripts/cascade/wolfram_cache.py, *)
(*                                        scripts/cascade/usage_tracker.py *)
(*                                                                         *)
(* Query texts are sequences of one-character strings, so that lower(),    *)
(* strip(), split() and the substring test `kw in query` are computed the  *)
(* way Python computes them.  Times are whole hours; response times are    *)
(* milliseconds; routing confidences are hundredths.                       *)
(***************************************************************************)
EXTENDS Integers, Sequences, FiniteSets, TLC

(***************************************************************************)
(* Bounds of the model.                                                    *)
(***************************************************************************)
\* number of solve() calls in one run
MaxCalls == 2
\* number of times the wall clock is advanced in one run
MaxAdvances == 1
\* number of restarts of the process in one run
MaxRestarts == 1
\* QueryCache.max_memory_entries (100 in the program, scaled down)
MaxMemoryEntries == 2

(***************************************************************************)
(* Text primitives.                                                        *)
(***************************************************************************)
UPPER == <<"A","B","C","D","E","F","G","H","I","J","K","L","M","N","O","P","Q","R","S","T","U","V","W","X","Y","Z">>
LOWER == <<"a","b","c","d","e","f","g","h","i","j","k","l","m","n","o","p","q","r","s","t","u","v","w","x","y","z">>

\* str.lower() on one character
LowerChar(c) ==
    IF \E i \in 1..Len(UPPER) : UPPER[i] = c
    THEN LOWER[CHOOSE i \in 1..Len(UPPER) : UPPER[i] = c]
    ELSE c

\* str.lower()
Lower(s) ==
    [i \in 1..Len(s) |-> LowerChar(s[i])]

\* the characters str.strip() and str.split() treat as whitespace
WHITESPACE ==
    {" ", "\t", "\n"}

\* str.strip(): drop leading and trailing whitespace, keep the inside
Strip(s) ==
    LET idx == {i \in 1..Len(s) : s[i] \notin WHITESPACE}
        Min(S) == CHOOSE x \in S : \A y \in S : x <= y
        Max(S) == CHOOSE x \in S : \A y \in S : x >= y
    IN  IF idx = {} THEN << >> ELSE SubSeq(s, Min(idx), Max(idx))

\* the Python test `sub in s` on strings
Contains(sub, s) ==
    \E i \in 1..(Len(s) - Len(sub) + 1) : SubSeq(s, i, i + Len(sub) - 1) = sub

\* any(kw in s for kw in kws)
AnyIn(kws, s) ==
    \E kw \in kws : Contains(kw, s)

\* sum(1 for kw in kws if kw in s)
Score(kws, s) ==
    Cardinality({kw \in kws : Contains(kw, s)})

\* len(s.split()): the number of maximal runs of non-whitespace
WordCount(s) ==
    Cardinality({i \in 1..Len(s) :
                   /\ s[i] \notin WHITESPACE
                   /\ (i = 1 \/ s[i - 1] \in WHITESPACE)})

(***************************************************************************)
(* Keyword tables of the router and of the TTL policy.                     *)
(***************************************************************************)
SYMPY_KEYWORDS ==
    { <<"s","o","l","v","e">>,
      <<"s","i","m","p","l","i","f","y">>,
      <<"e","x","p","a","n","d">>,
      <<"f","a","c","t","o","r">>,
      <<"d","i","f","f","e","r","e","n","t","i","a","t","e">>,
      <<"i","n","t","e","g","r","a","t","e">>,
      <<"d","e","r","i","v","a","t","i","v","e">>,
      <<"l","i","m","i","t">>,
      <<"m","a","t","r","i","x">>,
      <<"d","e","t","e","r","m","i","n","a","n","t">>,
      <<"e","i","g","e","n","v","a","l","u","e">>,
      <<"r","o","o","t","s">>,
      <<"e","q","u","a","t","i","o","n">> }

WOLFRAM_KEYWORDS ==
    { <<"c","o","n","v","e","r","t">>,
      <<"p","l","o","t">>,
      <<"g","r","a","p","h">>,
      <<"d","i","s","t","r","i","b","u","t","i","o","n">>,
      <<"s","t","a","t","i","s","t","i","c","s">>,
      <<"m","e","a","n">>,
      <<"m","e","d","i","a","n">>,
      <<"s","t","a","n","d","a","r","d"," ","d","e","v","i","a","t","i","o","n">>,
      <<"p","r","i","m","e">>,
      <<"t","a","y","l","o","r"," ","s","e","r","i","e","s">>,
      <<"f","o","u","r","i","e","r">>,
      <<"n","u","m","e","r","i","c","a","l">>,
      <<"a","p","p","r","o","x","i","m","a","t","e">>,
      <<"s","p","e","e","d"," ","o","f">>,
      <<"m","a","s","s"," ","o","f">>,
      <<"m","o","l","e","c","u","l","a","r">>,
      <<"a","t","o","m","i","c">>,
      <<"c","h","e","m","i","c","a","l">> }

LLM_KEYWORDS ==
    { <<"p","r","o","v","e">>,
      <<"e","x","p","l","a","i","n">>,
      <<"w","h","y">>,
      <<"w","o","r","d"," ","p","r","o","b","l","e","m">>,
      <<"a","l","i","c","e">>,
      <<"b","o","b">>,
      <<"t","r","a","i","n">>,
      <<"p","r","o","o","f">>,
      <<"s","h","o","w"," ","t","h","a","t">>,
      <<"d","e","m","o","n","s","t","r","a","t","e">>,
      <<"c","o","m","p","a","r","e">>,
      <<"s","t","r","a","t","e","g","y">>,
      <<"a","p","p","r","o","a","c","h">>,
      <<"u","n","d","e","r","s","t","a","n","d">>,
      <<"r","e","a","s","o","n","i","n","g">> }

PROOF_MARKERS ==
    { <<"p","r","o","v","e">>,
      <<"p","r","o","o","f">>,
      <<"e","x","p","l","a","i","n">>,
      <<"w","h","y">>,
      <<"s","h","o","w"," ","t","h","a","t">> }

NAME_MARKERS ==
    { <<"a","l","i","c","e">>,
      <<"b","o","b">>,
      <<"t","r","a","i","n">>,
      <<"c","a","r">>,
      <<"s","t","o","r","e">> }

MATH_MARKERS ==
    { <<"=">>,
      <<"d","/","d","x">>,
      <<"U+222B">> }

CONDITIONAL_MARKERS ==
    { <<"i","f"," ">>,
      <<"t","h","e","n">>,
      <<"h","o","w"," ","m","a","n","y">>,
      <<"h","o","w"," ","m","u","c","h">> }

ARITHMETIC_OPS ==
    { <<"+">>,
      <<"-">>,
      <<"*">>,
      <<"/">>,
      <<"^">> }

SHORT_TTL_MARKERS ==
    { <<"p","r","o","v","e">>,
      <<"e","x","p","l","a","i","n">>,
      <<"w","h","y">> }

(***************************************************************************)
(* The query texts the callers submit.                                     *)
(***************************************************************************)
\* "derivative of x^2"
Q_deriv ==
    <<"d","e","r","i","v","a","t","i","v","e"," ","o","f"," ","x","^","2">>

\* "  Derivative OF x^2 "
Q_deriv_case ==
    <<" "," ","D","e","r","i","v","a","t","i","v","e"," ","O","F"," ","x","^","2"," ">>

\* "derivative  of x^2"
Q_deriv_inner ==
    <<"d","e","r","i","v","a","t","i","v","e"," "," ","o","f"," ","x","^","2">>

\* "prove that sqrt(2) is irrational"
Q_prove ==
    <<"p","r","o","v","e"," ","t","h","a","t"," ","s","q","r","t","(","2",")"," ","i","s"," ","i","r","r","a","t","i","o","n","a","l">>

\* "convert 5 km to miles"
Q_convert ==
    <<"c","o","n","v","e","r","t"," ","5"," ","k","m"," ","t","o"," ","m","i","l","e","s">>

\* "if alice has 3 apples then how many?"
Q_word ==
    <<"i","f"," ","a","l","i","c","e"," ","h","a","s"," ","3"," ","a","p","p","l","e","s"," ","t","h","e","n"," ","h","o","w"," ","m","a","n","y","?">>

\* "2+2"
Q_sum ==
    <<"2","+","2">>

Queries ==
    {Q_deriv, Q_deriv_case, Q_deriv_inner, Q_prove, Q_convert}

(***************************************************************************)
(* MathQueryRouter.                                                        *)
(***************************************************************************)
\* the three layers, and the values of solve()'s force_layer ("none" = None)
Layers ==
    {"sympy", "wolfram", "llm"}

ForceLayers ==
    Layers \cup {"none"}

\* MathQueryRouter._is_word_problem: at least two of the four indicators
_is_word_problem(query) ==
    LET b2n(b) == IF b THEN 1 ELSE 0
        indicators ==
            b2n(WordCount(query) > 15)
          + b2n(AnyIn(NAME_MARKERS, Lower(query)))
          + b2n(Contains(<<"?">>, query) /\ ~AnyIn(MATH_MARKERS, query))
          + b2n(AnyIn(CONDITIONAL_MARKERS, Lower(query)))
    IN  indicators >= 2

\* mutant: the keyword scores are consulted before the proof markers
route_query_ScoresFirst(query) ==
    LET query_lower == Lower(query)
        sympy_score == Score(SYMPY_KEYWORDS, query_lower)
        wolfram_score == Score(WOLFRAM_KEYWORDS, query_lower)
        llm_score == Score(LLM_KEYWORDS, query_lower)
        max2 == IF wolfram_score >= llm_score THEN wolfram_score ELSE llm_score
    IN  IF sympy_score > max2
        THEN [primary |-> "sympy", fallback_order |-> <<"wolfram", "llm">>,
              confidence |-> 80]
        ELSE IF wolfram_score > llm_score
        THEN [primary |-> "wolfram", fallback_order |-> <<"llm">>,
              confidence |-> 75]
        ELSE IF AnyIn(PROOF_MARKERS, query_lower)
        THEN [primary |-> "llm", fallback_order |-> << >>, confidence |-> 95]
        ELSE IF _is_word_problem(query)
        THEN [primary |-> "llm", fallback_order |-> << >>, confidence |-> 90]
        ELSE [primary |-> "sympy", fallback_order |-> <<"wolfram", "llm">>,
              confidence |-> 60]

\* MathQueryRouter.route_query
route_query(query) ==
    LET query_lower == Lower(query)
        sympy_score == Score(SYMPY_KEYWORDS, query_lower)
        wolfram_score == Score(WOLFRAM_KEYWORDS, query_lower)
        llm_score == Score(LLM_KEYWORDS, query_lower)
        max2 == IF wolfram_score >= llm_score THEN wolfram_score ELSE llm_score
    IN  IF AnyIn(PROOF_MARKERS, query_lower)
        THEN [primary |-> "llm", fallback_order |-> << >>, confidence |-> 95]
        ELSE IF _is_word_problem(query)
        THEN [primary |-> "llm", fallback_order |-> << >>, confidence |-> 90]
        ELSE IF sympy_score > max2
        THEN [primary |-> "sympy", fallback_order |-> <<"wolfram", "llm">>,
              confidence |-> 80]
        ELSE IF wolfram_score > llm_score
        THEN [primary |-> "wolfram", fallback_order |-> <<"llm">>,
              confidence |-> 75]
        ELSE [primary |-> "sympy", fallback_order |-> <<"wolfram", "llm">>,
              confidence |-> 60]

\* solve(): the routing of one call (lines 231-236)
Routing(query, force_layer) ==
    IF force_layer # "none"
    THEN [primary |-> force_layer, fallback_order |-> << >>, confidence |-> 100]
    ELSE route_query(query)

\* mutant: the fallback layers are dropped from the execution order
ExecutionOrder_PrimaryOnly(routing) ==
    <<routing.primary>>

\* solve(): execution_order = [primary] + fallback_order (line 243)
ExecutionOrder(routing) ==
    <<routing.primary>> \o routing.fallback_order

(***************************************************************************)
(* QueryCache / SmartCache: fingerprint, TTL policy, validity.             *)
(***************************************************************************)
\* mutant: the text is stripped but not lowercased before hashing
_hash_query_NoLower(query) ==
    Strip(query)

\* QueryCache._hash_query: sha256(query.lower().strip())[:16]; the digest is
\* represented by the normalised text it is computed from
_hash_query(query) ==
    Strip(Lower(query))

\* SmartCache.set: the TTL, in hours, chosen from the query text
SmartTTL(query) ==
    IF AnyIn(ARITHMETIC_OPS, query) /\ ~Contains(<<"=">>, query)
    THEN 24 * 7
    ELSE IF AnyIn(SHORT_TTL_MARKERS, Lower(query))
    THEN 24
    ELSE 24 * 3

\* expires_at = None
NoExpiry ==
    -1

\* mutant: an entry is still served at the instant it expires
_is_valid_Inclusive(entry, t) ==
    \/ entry.expires_at = NoExpiry
    \/ t <= entry.expires_at

\* QueryCache._is_valid at wall-clock time t
_is_valid(entry, t) ==
    \/ entry.expires_at = NoExpiry
    \/ t < entry.expires_at

\* the routing, fingerprint and TTL of every query text, computed once
RouteOf ==
    [q \in Queries |-> route_query(q)]

KeyOf ==
    [q \in Queries |-> _hash_query(q)]

TtlOf ==
    [q \in Queries |-> SmartTTL(q)]

Keys ==
    {KeyOf[q] : q \in Queries}

(***************************************************************************)
(* Python dict with insertion order, as a sequence of [key, entry].        *)
(***************************************************************************)
DictHas(d, k) ==
    \E i \in 1..Len(d) : d[i].key = k

DictGet(d, k) ==
    d[CHOOSE i \in 1..Len(d) : d[i].key = k].entry

DictDel(d, k) ==
    SelectSeq(d, LAMBDA e : e.key # k)

\* d[k] = v: an existing key keeps its position, a new key goes last
DictSet(d, k, v) ==
    IF DictHas(d, k)
    THEN [i \in 1..Len(d) |->
            IF d[i].key = k THEN [key |-> k, entry |-> v] ELSE d[i]]
    ELSE Append(d, [key |-> k, entry |-> v])

\* the number of callers that use one engine, or one cache, concurrently
NumCallers ==
    2

Callers ==
    1..NumCallers

(***************************************************************************)
(* State.                                                                  *)
(***************************************************************************)
VARIABLES
    wolfram_enabled,   \* CalculatorEngine.wolfram_enabled (self.wolfram is set iff TRUE)
    wolfram_dev_mode,  \* CalculatorEngine.wolfram_dev_mode
    cache_enabled,     \* CalculatorEngine.cache_enabled
    stats,             \* CalculatorEngine.stats
    memory_cache,      \* QueryCache.memory_cache
    disk,              \* the files <cache_key>.json of QueryCache.cache_dir
    cache_stats,       \* QueryCache.stats
    query_frequency,   \* SmartCache.query_frequency
    wolfram,           \* WolframAlphaHandler: its cache, usage tracker, statistics
    network_calls,     \* HTTP requests sent to the knowledge service so far
    now,               \* the wall clock, in hours
    calls,             \* number of solve() calls made
    advances,          \* number of clock advances made
    restarts,          \* number of restarts made
    last,              \* the last solve() call as its caller observed it
    prev,              \* the solve() call before the last
    pc,                \* concurrent callers: the statement each one is at
    local              \* concurrent callers: the local variables of each one

vars ==
    <<wolfram_enabled, wolfram_dev_mode, cache_enabled, stats, memory_cache,
      disk, cache_stats, query_frequency, wolfram, network_calls, now, calls,
      advances, restarts, last, prev, pc, local>>

(***************************************************************************)
(* QueryCache / SmartCache operations on a cache state                     *)
(*   c = [memory_cache, disk, cache_stats, query_frequency].               *)
(***************************************************************************)
CacheState ==
    [memory_cache |-> memory_cache, disk |-> disk,
     cache_stats |-> cache_stats, query_frequency |-> query_frequency]

\* min(memory_cache.keys(), key=last_accessed): the first key, in dict order,
\* among those with the smallest last_accessed
OldestKey(mem) ==
    mem[CHOOSE i \in 1..Len(mem) :
          \A j \in 1..Len(mem) :
             \/ mem[i].entry.last_accessed < mem[j].entry.last_accessed
             \/ /\ mem[i].entry.last_accessed = mem[j].entry.last_accessed
                /\ i <= j].key

\* QueryCache._add_to_memory
_add_to_memory(c, cache_key, entry) ==
    IF Len(c.memory_cache) >= MaxMemoryEntries
    THEN [c EXCEPT
            !.memory_cache =
                DictSet(DictDel(c.memory_cache, OldestKey(c.memory_cache)),
                        cache_key, entry),
            !.cache_stats.evictions = @ + 1]
    ELSE [c EXCEPT !.memory_cache = DictSet(c.memory_cache, cache_key, entry)]

\* a result that no lookup returned
NoResult ==
    [success |-> FALSE]

\* QueryCache.get after the memory tier did not answer: the durable tier
DiskGet(c, cache_key, t) ==
    LET miss(cc) == [hit |-> FALSE, tier |-> "none", result |-> NoResult,
                     c |-> [cc EXCEPT !.cache_stats.misses = @ + 1]]
    IN  IF cache_key \notin DOMAIN c.disk
        THEN miss(c)
        ELSE IF c.disk[cache_key].corrupt
        THEN miss(c)                               \* json.load raises, swallowed
        ELSE LET entry == c.disk[cache_key].entry
             IN  IF _is_valid(entry, t)
                 THEN LET e2 == [entry EXCEPT !.last_accessed = t]
                          c2 == [c EXCEPT !.cache_stats.hits = @ + 1]
                      IN  [hit |-> TRUE, tier |-> "disk", result |-> e2.result,
                           c |-> _add_to_memory(c2, cache_key, e2)]
                 ELSE miss([c EXCEPT !.disk =
                              [k \in DOMAIN c.disk \ {cache_key} |-> c.disk[k]]])

\* QueryCache.get
QueryCacheGet(c, query, t) ==
    LET cache_key == KeyOf[query]
    IN  IF DictHas(c.memory_cache, cache_key)
        THEN LET entry == DictGet(c.memory_cache, cache_key)
             IN  IF _is_valid(entry, t)
                 THEN [hit |-> TRUE, tier |-> "memory", result |-> entry.result,
                       c |-> [c EXCEPT
                                !.cache_stats.hits = @ + 1,
                                !.memory_cache =
                                    DictSet(@, cache_key,
                                            [entry EXCEPT !.last_accessed = t])]]
                 ELSE DiskGet([c EXCEPT !.memory_cache = DictDel(@, cache_key)],
                              cache_key, t)
        ELSE DiskGet(c, cache_key, t)

\* SmartCache.get: frequency tracking, then QueryCache.get
SmartCacheGet(c, query, t) ==
    LET cache_key == KeyOf[query]
        n == IF cache_key \in DOMAIN c.query_frequency
             THEN c.query_frequency[cache_key] ELSE 0
    IN  QueryCacheGet([c EXCEPT !.query_frequency = (cache_key :> (n + 1)) @@ @],
                      query, t)

\* json.dump can encode every payload but a SymPy object
Serializable(result) ==
    result.result # "sym_obj"

\* the ways the write of <cache_key>.json can end: "open_failed" when the
\* file cannot be opened for writing, else "written", or "dump_failed" when
\* json.dump raises on a payload it cannot encode and leaves a truncated
\* file behind
DiskWriteOutcomes(result) ==
    {"open_failed"} \cup
        (IF Serializable(result) THEN {"written"} ELSE {"dump_failed"})

\* QueryCache.set
QueryCacheSet(c, query, result, ttl_hours, t, write) ==
    LET cache_key == KeyOf[query]
        expires_at == IF ttl_hours = 0 THEN NoExpiry ELSE t + ttl_hours
        entry == [query |-> query, result |-> result, cached_at |-> t,
                  last_accessed |-> t, expires_at |-> expires_at]
        c2 == _add_to_memory(c, cache_key, entry)
    IN  CASE write = "written" ->
               [c2 EXCEPT
                  !.disk = (cache_key :> [corrupt |-> FALSE, entry |-> entry]) @@ @,
                  !.cache_stats.saves = @ + 1]
          [] write = "dump_failed" ->
               [c2 EXCEPT !.disk = (cache_key :> [corrupt |-> TRUE]) @@ @]
          [] OTHER -> c2

\* SmartCache.set as the engine calls it (ttl_hours = None)
SmartCacheSet(c, query, result, t, write) ==
    QueryCacheSet(c, query, result, TtlOf[query], t, write)

(***************************************************************************)
(* Backend outcomes: what a handler's process_query hands back to          *)
(* CalculatorEngine._try_sympy / _try_wolfram / _try_llm.                  *)
(***************************************************************************)
\* the handler returned None, or raised and _try_* returned None
NoneOutcome ==
    [none |-> TRUE, success |-> FALSE, result |-> "None",
     formatted |-> "None", source |-> "None"]

Failure(source) ==
    [none |-> FALSE, success |-> FALSE, result |-> "None",
     formatted |-> "None", source |-> source]

Success(result, formatted, source) ==
    [none |-> FALSE, success |-> TRUE, result |-> result,
     formatted |-> formatted, source |-> source]

\* SymPyHandler.process_query: None, a dict with a SymPy expression under
\* 'result' (simplify_expression), a dict with a SymPy relational under
\* 'result' (simplify_expression of an inequality), or a dict without
\* 'result' (compute_derivative)
SympyOutcomes ==
    {NoneOutcome,
     Success("sym_obj", "sym_fmt", "sympy"),
     Success("sym_rel", "sym_fmt", "sympy"),
     Success("None", "sym_fmt", "sympy")}

\* LLMHandler.process_query behind _try_llm: None when the translator or the
\* handler raised, a failure dict, or the extracted answer
LLMOutcomes ==
    {NoneOutcome,
     Failure("llm"),
     Success("llm_a", "None", "llm"),
     Success("llm_b", "None", "llm")}

\* solve(): `result and result['success']` (line 272)
Succeeded(out) ==
    ~out.none /\ out.success

\* solve(): result.get('result') or result.get('formatted') (line 296)
PayloadOf(out) ==
    IF out.result # "None" THEN out.result ELSE out.formatted

\* solve(): the `or` of line 296 takes the truth value of result['result'];
\* a SymPy relational has none and raises TypeError
PayloadRaises(out) ==
    out.result = "sym_rel"

(***************************************************************************)
(* UsageTracker and WolframAlphaHandler.                                   *)
(***************************************************************************)
MONTHLY_LIMIT == 2000
DEVELOPMENT_BUDGET == 1000
PRODUCTION_RESERVE == 1000

\* UsageTracker.can_make_query with force = False
can_make_query(usage, is_dev) ==
    IF usage.total_queries_used >= MONTHLY_LIMIT
    THEN FALSE
    ELSE IF is_dev
    THEN ~(usage.dev_queries_used >= DEVELOPMENT_BUDGET)
    ELSE ~(usage.prod_queries_used >= PRODUCTION_RESERVE)

\* UsageTracker.record_query; the history is kept per day
record_query(usage, is_dev, t) ==
    LET today == t \div 24
        n == IF today \in DOMAIN usage.history THEN usage.history[today] ELSE 0
    IN  [usage EXCEPT
           !.total_queries_used = @ + 1,
           !.dev_queries_used = IF is_dev THEN @ + 1 ELSE @,
           !.prod_queries_used = IF is_dev THEN @ ELSE @ + 1,
           !.history = (today :> (n + 1)) @@ @]

\* mutant: the tracker's refusal is ignored
QuotaBlocks_Never(usage, is_dev) ==
    FALSE

\* WolframAlphaHandler.process_query: `if not can_query` (lines 165-166)
QuotaBlocks(usage, is_dev) ==
    ~can_make_query(usage, is_dev)

\* WolframCache._hash_query: sha256(query.strip().lower())[:16]
WolframKey(query) ==
    Lower(Strip(query))

WolframKeyOf ==
    [q \in Queries |-> WolframKey(q)]

\* WolframCache.set
WolframCacheSet(w, query, result, api_used, t) ==
    [w EXCEPT !.cache_data =
        (WolframKeyOf[query] :> [result |-> result, api_used |-> api_used,
                                 timestamp |-> t]) @@ @]

\* the outcomes of one HTTP request (_query_simple, _query_short)
ApiOutcomes ==
    {"ok", "failed"}

\* the ways UsageTracker._save_usage can end
SaveOutcomes ==
    {"saved", "io_error"}

\* process_query after an API answered and the answer was cached (lines
\* 178-187, 194-203): record_query counts the request and saves the usage
\* file; when the save raises, process_query raises and _try_wolfram hands
\* back None
Recorded(w, is_dev, t, result, source, net) ==
    LET usage2 == record_query(w.usage, is_dev, t)
    IN  {IF save = "saved"
         THEN [out |-> Success(result, "None", source),
               w |-> [w EXCEPT !.usage = usage2, !.usage_file = usage2,
                               !.stats.api_calls_simple =
                                   IF source = "simple_api" THEN @ + 1 ELSE @,
                               !.stats.api_calls_short =
                                   IF source = "short_api" THEN @ + 1 ELSE @],
               net |-> net]
         ELSE [out |-> NoneOutcome,
               w |-> [w EXCEPT !.usage = usage2],
               net |-> net]
         : save \in SaveOutcomes}

\* WolframAlphaHandler.process_query: the set of ways one call can end, each
\* with the outcome handed back, the handler's state w and the number of
\* HTTP requests sent
process_query(w0, query, is_dev, t) ==
    LET w == [w0 EXCEPT !.stats.queries_processed = @ + 1]
        key == WolframKeyOf[query]
    IN  IF key \in DOMAIN w.cache_data
        THEN {[out |-> Success(w.cache_data[key].result, "None", "cache"),
               w |-> [w EXCEPT !.stats.cache_hits = @ + 1, !.hits = @ + 1],
               net |-> 0]}
        ELSE LET w1 == [w EXCEPT !.misses = @ + 1]
             IN  IF QuotaBlocks(w1.usage, is_dev)
                 THEN {[out |-> Failure("quota_exceeded"),
                        w |-> [w1 EXCEPT !.stats.quota_blocked = @ + 1],
                        net |-> 0]}
                 ELSE UNION {
                     IF simple = "ok"
                     THEN Recorded(WolframCacheSet(w1, query, "w_simple", "simple", t),
                                   is_dev, t, "w_simple", "simple_api", 1)
                     ELSE UNION {
                         IF short = "ok"
                         THEN Recorded(WolframCacheSet(w1, query, "w_short", "short", t),
                                       is_dev, t, "w_short", "short_api", 2)
                         ELSE {[out |-> Failure("error"),
                                w |-> [w1 EXCEPT !.stats.api_errors = @ + 1],
                                net |-> 2]}
                         : short \in ApiOutcomes}
                     : simple \in ApiOutcomes}

(***************************************************************************)
(* CalculatorEngine.solve.                                                 *)
(***************************************************************************)
\* one attempt of a layer (lines 252-269): the ways it can end
TryLayer(layer, query, w) ==
    CASE layer = "sympy" ->
           {[out |-> o, w |-> w, net |-> 0] : o \in SympyOutcomes}
      [] layer = "wolfram" ->
           process_query(w, query, wolfram_dev_mode, now)
      [] OTHER ->
           {[out |-> o, w |-> w, net |-> 0] : o \in LLMOutcomes}

\* the loop over execution_order (lines 247-314), from position i on: the set
\* of ways it can end.  attempted lists the layers whose handler was invoked,
\* each with the outcome it handed back.
RECURSIVE Walk(_, _, _, _, _, _, _)
Walk(order, i, query, cascade_path, attempted, w, net) ==
    IF i > Len(order)
    THEN {[success |-> FALSE, layer |-> "none", out |-> NoneOutcome,
           cascade_path |-> cascade_path, attempted |-> attempted,
           w |-> w, net |-> net]}
    ELSE LET layer == order[i]
             path2 == Append(cascade_path, layer)
         IN  IF layer = "wolfram" /\ ~wolfram_enabled
             THEN Walk(order, i + 1, query, path2, attempted, w, net)
             ELSE UNION {
                 LET att2 == Append(attempted, [layer |-> layer, out |-> t.out])
                 IN  IF Succeeded(t.out)
                     THEN {[success |-> TRUE, layer |-> layer, out |-> t.out,
                            cascade_path |-> path2, attempted |-> att2,
                            w |-> t.w, net |-> net + t.net]}
                     ELSE Walk(order, i + 1, query, path2, att2, t.w, net + t.net)
                 : t \in TryLayer(layer, query, w)}

\* the measured response times of a live call, in milliseconds
ResponseTimes ==
    {7}

\* the response_time a cache hit reports: 0.001 s (line 224)
CACHE_HIT_RESPONSE_TIME == 1

RECURSIVE GCD(_, _)
GCD(a, b) ==
    IF b = 0 THEN a ELSE GCD(b, a % b)

\* a rational number num/den in lowest terms
Fraction(num, den) ==
    IF num = 0 THEN [num |-> 0, den |-> 1]
    ELSE [num |-> num \div GCD(num, den), den |-> den \div GCD(num, den)]

\* solve(): the running average (lines 287-290), n = total_queries
UpdateAverage(avg, n, response_time) ==
    Fraction(avg.num * (n - 1) + response_time * avg.den, avg.den * n)

\* mutant: a success reached after a cascade is counted as triggered only,
\* not as a success of its layer
StatsOnSuccess_FirstLayerOnly(s, layer, cascade_path, response_time) ==
    [s EXCEPT
       !.sympy_successes = IF layer = "sympy" /\ Len(cascade_path) = 1 THEN @ + 1 ELSE @,
       !.wolfram_successes = IF layer = "wolfram" /\ Len(cascade_path) = 1 THEN @ + 1 ELSE @,
       !.llm_successes = IF layer = "llm" /\ Len(cascade_path) = 1 THEN @ + 1 ELSE @,
       !.cascade_triggered = IF Len(cascade_path) > 1 THEN @ + 1 ELSE @,
       !.avg_response_time = UpdateAverage(@, s.total_queries, response_time)]

\* solve(): the statistics after a success of layer (lines 276-290)
StatsOnSuccess(s, layer, cascade_path, response_time) ==
    [s EXCEPT
       !.sympy_successes = IF layer = "sympy" THEN @ + 1 ELSE @,
       !.wolfram_successes = IF layer = "wolfram" THEN @ + 1 ELSE @,
       !.llm_successes = IF layer = "llm" THEN @ + 1 ELSE @,
       !.cascade_triggered = IF Len(cascade_path) > 1 THEN @ + 1 ELSE @,
       !.avg_response_time = UpdateAverage(@, s.total_queries, response_time)]

\* solve(): final_result (lines 294-303)
FinalResult(layer, out, response_time, cascade_path, routing) ==
    [success |-> TRUE, result |-> PayloadOf(out), source |-> layer,
     response_time |-> response_time, cascade_path |-> cascade_path,
     routing_confidence |-> routing.confidence, error |-> "None",
     from_cache |-> FALSE]

\* solve(): the dict returned when every layer failed (lines 322-330)
FailureResult(response_time, cascade_path, routing) ==
    [success |-> FALSE, result |-> "None", source |-> "none",
     response_time |-> response_time, cascade_path |-> cascade_path,
     routing_confidence |-> routing.confidence,
     error |-> "All layers failed to solve the query"]

\* solve() returned nothing: the TypeError of line 296 left it
Raised ==
    [success |-> FALSE, exception |-> "TypeError"]

\* mutant: the cache is read whether or not force_layer is given
ReadsCache_Always(force_layer) ==
    cache_enabled

\* solve(): whether the call starts with a cache read (line 219)
ReadsCache(force_layer) ==
    cache_enabled /\ force_layer = "none"

\* mutant: the result of a forced call is not written to the cache
WritesCache_NotForced(force_layer) ==
    cache_enabled /\ force_layer = "none"

\* solve(): whether a success is written to the cache (line 306)
WritesCache(force_layer) ==
    cache_enabled

\* mutant: the hit is returned without being marked from_cache
HitResult_NoFlag(cached_result) ==
    [cached_result EXCEPT !.response_time = CACHE_HIT_RESPONSE_TIME]

\* solve(): the dict a cache hit returns (lines 224-226)
HitResult(cached_result) ==
    [cached_result EXCEPT !.response_time = CACHE_HIT_RESPONSE_TIME,
                          !.from_cache = TRUE]

SetCache(c) ==
    /\ memory_cache' = c.memory_cache
    /\ disk' = c.disk
    /\ cache_stats' = c.cache_stats
    /\ query_frequency' = c.query_frequency

\* entry_expires of a call that neither wrote nor was answered from an entry
NoEntry ==
    -2

\* what the caller of one solve() call observes: the arguments, the time of
\* the call and the engine instance (epoch) it ran on, whether the cache was
\* read and answered (and from which tier), the execution order built, the
\* handlers invoked with their outcomes, the HTTP requests sent, how the
\* durable write ended, the expiry of the entry written or answered from, and
\* the dict returned
CallRecord(query, force_layer, hit, tier, order, attempted, net, write, entry_expires, returned) ==
    [query |-> query, force_layer |-> force_layer, at |-> now,
     epoch |-> restarts, cache_read |-> ReadsCache(force_layer), hit |-> hit,
     tier |-> tier, order |-> order, attempted |-> attempted, net |-> net,
     write |-> write, entry_expires |-> entry_expires, returned |-> returned]

\* mutant: total_queries is counted before the cache is consulted
SolveHit_CountsQuery(query, force_layer, g) ==
    LET returned == HitResult(g.result)
        key == KeyOf[query]
        entry == DictGet(g.c.memory_cache, key)
    IN  /\ SetCache([g.c EXCEPT !.memory_cache =
                        DictSet(@, key, [entry EXCEPT !.result = returned])])
        /\ last' = CallRecord(query, force_layer, TRUE, g.tier, << >>, << >>,
                              0, "none", entry.expires_at, returned)
        /\ stats' = [stats EXCEPT !.total_queries = @ + 1]
        /\ UNCHANGED <<wolfram, network_calls>>

\* solve() answered from the cache (lines 219-226).  cached_result is the dict
\* held by the memory tier, so the two assignments change the stored entry.
SolveHit(query, force_layer, g) ==
    LET returned == HitResult(g.result)
        key == KeyOf[query]
        entry == DictGet(g.c.memory_cache, key)
    IN  /\ SetCache([g.c EXCEPT !.memory_cache =
                        DictSet(@, key, [entry EXCEPT !.result = returned])])
        /\ last' = CallRecord(query, force_layer, TRUE, g.tier, << >>, << >>,
                              0, "none", entry.expires_at, returned)
        /\ UNCHANGED <<stats, wolfram, network_calls>>

\* mutant: the result of a call that failed is written to the cache too
SolveLive_CachesFailure(query, force_layer, response_time, c) ==
    LET routing == IF force_layer # "none"
                   THEN Routing(query, force_layer) ELSE RouteOf[query]
        order == ExecutionOrder(routing)
        stats1 == [stats EXCEPT !.total_queries = @ + 1]
    IN  \E r \in Walk(order, 1, query, << >>, << >>, wolfram, 0) :
          /\ wolfram' = r.w
          /\ network_calls' = network_calls + r.net
          /\ IF r.success /\ PayloadRaises(r.out)
             THEN /\ stats' = StatsOnSuccess(stats1, r.layer, r.cascade_path,
                                             response_time)
                  /\ SetCache(c)
                  /\ last' = CallRecord(query, force_layer, FALSE, "none", order,
                                        r.attempted, r.net, "none", NoEntry,
                                        Raised)
             ELSE IF r.success
             THEN LET final_result == FinalResult(r.layer, r.out, response_time,
                                                  r.cascade_path, routing)
                  IN  /\ stats' = StatsOnSuccess(stats1, r.layer, r.cascade_path,
                                                 response_time)
                      /\ IF WritesCache(force_layer)
                         THEN \E write \in DiskWriteOutcomes(final_result) :
                                /\ SetCache(SmartCacheSet(c, query, final_result,
                                                          now, write))
                                /\ last' = CallRecord(query, force_layer, FALSE,
                                                      "none", order, r.attempted,
                                                      r.net, write,
                                                      now + TtlOf[query],
                                                      final_result)
                         ELSE /\ SetCache(c)
                              /\ last' = CallRecord(query, force_layer, FALSE,
                                                    "none", order, r.attempted,
                                                    r.net, "none", NoEntry,
                                                    final_result)
             ELSE /\ stats' = [stats1 EXCEPT !.total_failures = @ + 1]
                  /\ SetCache(SmartCacheSet(c, query,
                                            FailureResult(response_time,
                                                          r.cascade_path, routing),
                                            now, "written"))
                  /\ last' = CallRecord(query, force_layer, FALSE, "none", order,
                                        r.attempted, r.net, "written",
                                        now + TtlOf[query],
                                        FailureResult(response_time,
                                                      r.cascade_path, routing))

\* solve() resolved live (lines 228-330), c being the cache after the read
SolveLive(query, force_layer, response_time, c) ==
    LET routing == IF force_layer # "none"
                   THEN Routing(query, force_layer) ELSE RouteOf[query]
        order == ExecutionOrder(routing)
        stats1 == [stats EXCEPT !.total_queries = @ + 1]
    IN  \E r \in Walk(order, 1, query, << >>, << >>, wolfram, 0) :
          /\ wolfram' = r.w
          /\ network_calls' = network_calls + r.net
          /\ IF r.success /\ PayloadRaises(r.out)
             THEN /\ stats' = StatsOnSuccess(stats1, r.layer, r.cascade_path,
                                             response_time)
                  /\ SetCache(c)
                  /\ last' = CallRecord(query, force_layer, FALSE, "none", order,
                                        r.attempted, r.net, "none", NoEntry,
                                        Raised)
             ELSE IF r.success
             THEN LET final_result == FinalResult(r.layer, r.out, response_time,
                                                  r.cascade_path, routing)
                  IN  /\ stats' = StatsOnSuccess(stats1, r.layer, r.cascade_path,
                                                 response_time)
                      /\ IF WritesCache(force_layer)
                         THEN \E write \in DiskWriteOutcomes(final_result) :
                                /\ SetCache(SmartCacheSet(c, query, final_result,
                                                          now, write))
                                /\ last' = CallRecord(query, force_layer, FALSE,
                                                      "none", order, r.attempted,
                                                      r.net, write,
                                                      now + TtlOf[query],
                                                      final_result)
                         ELSE /\ SetCache(c)
                              /\ last' = CallRecord(query, force_layer, FALSE,
                                                    "none", order, r.attempted,
                                                    r.net, "none", NoEntry,
                                                    final_result)
             ELSE /\ stats' = [stats1 EXCEPT !.total_failures = @ + 1]
                  /\ SetCache(c)
                  /\ last' = CallRecord(query, force_layer, FALSE, "none", order,
                                        r.attempted, r.net, "none", NoEntry,
                                        FailureResult(response_time,
                                                      r.cascade_path, routing))

\* CalculatorEngine.solve(query, force_layer)
Solve(query, force_layer, response_time) ==
    /\ calls < MaxCalls
    /\ calls' = calls + 1
    /\ prev' = last
    /\ UNCHANGED <<wolfram_enabled, wolfram_dev_mode, cache_enabled, now,
                   advances, restarts, pc, local>>
    /\ IF ReadsCache(force_layer)
       THEN LET g == SmartCacheGet(CacheState, query, now)
            IN  IF g.hit
                THEN SolveHit(query, force_layer, g)
                ELSE SolveLive(query, force_layer, response_time, g.c)
       ELSE SolveLive(query, force_layer, response_time, CacheState)

\* the amounts of time, in hours, that pass between two calls
AdvanceSteps ==
    {24, 72, 168}

\* time passes between two calls
Advance(hours) ==
    /\ 0 < calls /\ calls < MaxCalls
    /\ advances < MaxAdvances
    /\ advances' = advances + 1
    /\ now' = now + hours
    /\ UNCHANGED <<wolfram_enabled, wolfram_dev_mode, cache_enabled, stats,
                   memory_cache, disk, cache_stats, query_frequency, wolfram,
                   network_calls, calls, restarts, last, prev, pc, local>>

\* QueryCache.__init__: an empty memory tier and zeroed statistics
NewCacheStats ==
    [hits |-> 0, misses |-> 0, saves |-> 0, evictions |-> 0]

\* CalculatorEngine.__init__: the statistics of a new engine
NewStats ==
    [total_queries |-> 0, sympy_successes |-> 0, wolfram_successes |-> 0,
     llm_successes |-> 0, total_failures |-> 0,
     avg_response_time |-> [num |-> 0, den |-> 1], cascade_triggered |-> 0]

\* the usage file the tracker loads at construction: one call short of the
\* development budget, or one call short of the monthly limit
InitialUsage ==
    {[total_queries_used |-> DEVELOPMENT_BUDGET - 1,
      dev_queries_used |-> DEVELOPMENT_BUDGET - 1,
      prod_queries_used |-> 0, history |-> << >>],
     [total_queries_used |-> MONTHLY_LIMIT - 1,
      dev_queries_used |-> DEVELOPMENT_BUDGET,
      prod_queries_used |-> PRODUCTION_RESERVE - 1, history |-> << >>]}

\* WolframAlphaHandler.__init__ (and the placeholder when self.wolfram is None)
NewWolfram(usage) ==
    [cache_data |-> << >>, hits |-> 0, misses |-> 0, usage |-> usage,
     usage_file |-> usage,
     stats |-> [queries_processed |-> 0, cache_hits |-> 0,
                api_calls_simple |-> 0, api_calls_short |-> 0,
                api_errors |-> 0, quota_blocked |-> 0]]

NoLast ==
    [query |-> << >>, force_layer |-> "none", at |-> 0, epoch |-> 0,
     cache_read |-> FALSE, hit |-> FALSE, tier |-> "none", order |-> << >>,
     attempted |-> << >>, net |-> 0, write |-> "none",
     entry_expires |-> NoEntry, returned |-> NoResult]

\* mutant: the memory tier and the cache statistics survive the restart
Restart_KeepsMemory ==
    /\ 0 < calls /\ calls < MaxCalls
    /\ restarts < MaxRestarts
    /\ restarts' = restarts + 1
    /\ stats' = NewStats
    /\ query_frequency' = << >>
    /\ wolfram' = [NewWolfram(wolfram.usage_file)
                      EXCEPT !.cache_data = wolfram.cache_data]
    /\ UNCHANGED <<wolfram_enabled, wolfram_dev_mode, cache_enabled, disk,
                   memory_cache, cache_stats,
                   network_calls, now, calls, advances, last, prev, pc, local>>

\* the process is restarted: a new CalculatorEngine with the same arguments
\* over the same cache directory, Wolfram cache file and usage file.  The
\* memory tier and all statistics start afresh; the files stay.
Restart ==
    /\ 0 < calls /\ calls < MaxCalls
    /\ restarts < MaxRestarts
    /\ restarts' = restarts + 1
    /\ stats' = NewStats
    /\ memory_cache' = << >>
    /\ cache_stats' = NewCacheStats
    /\ query_frequency' = << >>
    /\ wolfram' = [NewWolfram(wolfram.usage_file)
                      EXCEPT !.cache_data = wolfram.cache_data]
    /\ UNCHANGED <<wolfram_enabled, wolfram_dev_mode, cache_enabled, disk,
                   network_calls, now, calls, advances, last, prev, pc, local>>

\* the local variables of a caller that is not inside a call
NoLocals ==
    [op |-> "none", query |-> << >>, reg |-> 0, n |-> 0,
     avg |-> [num |-> 0, den |-> 1], layer |-> "none", path_len |-> 0,
     key |-> << >>, oldest_key |-> << >>, entry |-> NoResult,
     backend |-> "none", error |-> "None",
     routing |-> [primary |-> "none", fallback_order |-> << >>, confidence |-> 0],
     ttl_hours |-> 0, translated |-> [operation |-> "none"], out |-> NoneOutcome,
     full_output |-> << >>]

\* CalculatorEngine.__init__
Init ==
    /\ \E enable_wolfram \in BOOLEAN, handler_ok \in BOOLEAN :
         wolfram_enabled = (enable_wolfram /\ handler_ok)
    /\ wolfram_dev_mode \in (IF wolfram_enabled THEN BOOLEAN ELSE {TRUE})
    /\ cache_enabled \in BOOLEAN
    /\ wolfram \in (IF wolfram_enabled
                    THEN {NewWolfram(u) : u \in InitialUsage}
                    ELSE {NewWolfram([total_queries_used |-> 0,
                                      dev_queries_used |-> 0,
                                      prod_queries_used |-> 0,
                                      history |-> << >>])})
    /\ stats = NewStats
    /\ memory_cache = << >>
    /\ disk = << >>
    /\ cache_stats = NewCacheStats
    /\ query_frequency = << >>
    /\ network_calls = 0
    /\ now = 0
    /\ calls = 0
    /\ advances = 0
    /\ restarts = 0
    /\ last = NoLast
    /\ prev = NoLast
    /\ pc = [t \in Callers |-> "idle"]
    /\ local = [t \in Callers |-> NoLocals]

Next ==
    \/ \E query \in Queries, force_layer \in ForceLayers,
          response_time \in ResponseTimes :
         Solve(query, force_layer, response_time)
    \/ \E hours \in AdvanceSteps : Advance(hours)
    \/ Restart

Spec ==
    Init /\ [][Next]_vars

(***************************************************************************)
(* Properties of the cascade.                                              *)
(***************************************************************************)
\* the last call returned a result record to its caller
Returned ==
    calls > 0 /\ last.returned # Raised

\* the last call was resolved live without force_layer
NonForcedLive ==
    calls > 0 /\ last.force_layer = "none" /\ ~last.hit

\* the elements of a sequence
Range(s) ==
    {s[i] : i \in 1..Len(s)}

\* the backends the engine can use: wolfram only when it is enabled
EnabledBackends ==
    IF wolfram_enabled THEN Layers ELSE Layers \ {"wolfram"}

\* C1 - Fallback correctness: in a non-forced call that is not a cache hit,
\* when the handlers invoked are the plan's primary backend A, which fails,
\* and then backend B, which succeeds, the result has success = true,
\* source = B, cascade_path = [A, B] and result = B's payload.
C1_FallbackCorrectness ==
    ( /\ NonForcedLive
      /\ Len(last.attempted) = 2
      /\ last.attempted[1].layer = last.order[1]
      /\ ~Succeeded(last.attempted[1].out)
      /\ Succeeded(last.attempted[2].out) )
    => /\ last.returned.success
       /\ last.returned.source = last.attempted[2].layer
       /\ last.returned.cascade_path =
              <<last.attempted[1].layer, last.attempted[2].layer>>
       /\ last.returned.result = PayloadOf(last.attempted[2].out)

C3_DisabledBackendInvisible ==
    (calls > 0 /\ last.force_layer = "none" /\ ~wolfram_enabled)
    => /\ "wolfram" \notin Range(last.order)
       /\ Returned => "wolfram" \notin Range(last.returned.cascade_path)

\* the last two calls were made on the same engine instance, the first one
\* left a cache entry (it succeeded and wrote it, or was answered from it)
\* and the second one is not forced
SecondCall ==
    /\ calls >= 2
    /\ cache_enabled
    /\ prev.epoch = last.epoch
    /\ prev.returned.success
    /\ prev.entry_expires # NoEntry
    /\ last.force_layer = "none"

\* C4 - Idempotence: with caching enabled and no force_layer, when a solve
\* call for a text succeeds, the next solve call of the same engine with the
\* identical text, made before the entry's TTL elapses, returns the same
\* result payload with from_cache = true and response_time 0.001 (1 ms), and
\* invokes no backend.
C4_Idempotence ==
    ( /\ SecondCall
      /\ prev.force_layer = "none"
      /\ last.query = prev.query
      /\ last.at < prev.entry_expires )
    => /\ last.hit
       /\ last.returned.result = prev.returned.result
       /\ last.returned.from_cache = TRUE
       /\ last.returned.response_time = CACHE_HIT_RESPONSE_TIME
       /\ last.attempted = << >>
       /\ last.net = 0

\* C4 witness: a live success, time passes, the identical text is a hit
C4_Witness ==
    /\ SecondCall
    /\ prev.force_layer = "none"
    /\ ~prev.hit
    /\ last.query = prev.query
    /\ prev.at < last.at
    /\ last.at < prev.entry_expires
    /\ last.hit

\* C5 - A solve call answered from the cache leaves every engine statistics
\* counter unchanged and attempts no backend.
C5_CacheHitSkipsStatistics ==
    [][ (calls' = calls + 1 /\ last'.hit)
        => /\ stats' = stats
           /\ last'.order = << >>
           /\ last'.attempted = << >>
           /\ wolfram' = wolfram
           /\ network_calls' = network_calls ]_vars

\* C5 witness: a hit on an engine whose counters are not all zero
C5_Witness ==
    /\ last.hit
    /\ last.epoch = prev.epoch
    /\ stats.total_queries >= 1
    /\ stats.avg_response_time.num > 0

RECURSIVE CollapseFrom(_, _)
CollapseFrom(s, i) ==
    IF i > Len(s) THEN << >>
    ELSE IF s[i] \in WHITESPACE
    THEN (IF i > 1 /\ s[i - 1] \notin WHITESPACE THEN <<" ">> ELSE << >>)
         \o CollapseFrom(s, i + 1)
    ELSE <<s[i]>> \o CollapseFrom(s, i + 1)

SameUpToCaseAndWhitespace ==
    [a \in Queries, b \in Queries |->
        Lower(Strip(CollapseFrom(a, 1))) = Lower(Strip(CollapseFrom(b, 1)))]

\* the texts a and b differ only in letter case and in leading or trailing
\* whitespace
SameUpToCaseAndOuterWhitespace ==
    [a \in Queries, b \in Queries |-> Lower(Strip(a)) = Lower(Strip(b))]

\* C7 as stated - Forced-override calls are never cached: a successful forced
\* call leaves no cache entry for its text, so a following solve(text)
\* without force_layer is a cache miss and is resolved live.
C7_ForcedNeverCached ==
    /\ (calls > 0 /\ cache_enabled /\ last.force_layer # "none"
          /\ last.returned.success /\ last.epoch = restarts)
         => /\ ~DictHas(memory_cache, KeyOf[last.query])
            /\ KeyOf[last.query] \notin DOMAIN disk
    /\ (calls >= 2 /\ cache_enabled /\ prev.epoch = last.epoch
          /\ prev.force_layer # "none" /\ prev.returned.success
          /\ last.force_layer = "none" /\ last.query = prev.query)
         => ~last.hit

\* C7 as amended - Forced-override calls are cached like any other success:
\* a successful forced call is stored under the TTL chosen from the query
\* text (24 h, 72 h or 168 h), so the next solve(text) without force_layer on
\* the same engine, made before that TTL elapses, is a cache hit that returns
\* the forced call's payload and source.
C7_ForcedIsCached ==
    /\ (calls > 0 /\ cache_enabled /\ last.force_layer # "none"
          /\ last.returned.success /\ last.epoch = restarts)
         => /\ DictHas(memory_cache, KeyOf[last.query])
            /\ last.entry_expires = last.at + TtlOf[last.query]
            /\ TtlOf[last.query] \in {24, 72, 168}
    /\ (SecondCall /\ prev.force_layer # "none" /\ last.query = prev.query
          /\ last.at < prev.entry_expires)
         => /\ last.hit
            /\ last.returned.result = prev.returned.result
            /\ last.returned.source = prev.force_layer
            /\ last.returned.cascade_path = <<prev.force_layer>>

\* C7 witness: a forced success, then the same text without force_layer is a hit
C7_Witness ==
    /\ SecondCall
    /\ prev.force_layer # "none"
    /\ prev.force_layer # RouteOf[prev.query].primary
    /\ last.query = prev.query
    /\ last.hit
    /\ last.returned.source = prev.force_layer

\* C8 as stated - Fingerprint stability: two texts that differ only in letter
\* case and/or whitespace (leading, trailing, or the amount between tokens)
\* have the same fingerprint, so after a successful solve of one a solve of
\* the other, made before the TTL elapses, is a hit on the same entry.
C8_FingerprintStability ==
    ( /\ SecondCall
      /\ SameUpToCaseAndWhitespace[prev.query, last.query]
      /\ last.at < prev.entry_expires )
    => /\ KeyOf[last.query] = KeyOf[prev.query]
       /\ last.hit
       /\ last.returned.result = prev.returned.result

\* C8 as amended - Fingerprint stability: two texts that differ only in letter
\* case and/or in leading or trailing whitespace have the same fingerprint,
\* so after a successful solve of one a solve of the other, made before the
\* TTL elapses, is a hit on the same entry.  Whitespace between tokens is
\* part of the fingerprint.
C8_FingerprintStabilityTrimmed ==
    ( /\ SecondCall
      /\ SameUpToCaseAndOuterWhitespace[prev.query, last.query]
      /\ last.at < prev.entry_expires )
    => /\ KeyOf[last.query] = KeyOf[prev.query]
       /\ last.hit
       /\ last.returned.result = prev.returned.result

\* C8 witness: a text is solved, a text of other case and outer whitespace hits
C8_Witness ==
    /\ SecondCall
    /\ last.query # prev.query
    /\ SameUpToCaseAndOuterWhitespace[prev.query, last.query]
    /\ last.hit
    /\ Len(memory_cache) = 1

\* a stale entry for key: one cached before time t whose TTL has elapsed at t
StaleInMemory(key, t) ==
    /\ DictHas(memory_cache, key)
    /\ DictGet(memory_cache, key).cached_at < t
    /\ DictGet(memory_cache, key).expires_at <= t

StaleOnDisk(key, t) ==
    /\ key \in DOMAIN disk
    /\ ~disk[key].corrupt
    /\ disk[key].entry.cached_at < t
    /\ disk[key].entry.expires_at <= t

\* C9 - TTL enforcement with lazy removal: a cache hit never returns an entry
\* whose TTL has elapsed; once the TTL of the entry left by a call has
\* elapsed, a read for its query is a miss, whichever tier held the entry
\* (the memory tier, or only the durable tier after a restart), and after that
\* read neither the memory tier nor the durable tier holds the expired entry.
C9_TTLEnforcement ==
    /\ (calls > 0 /\ last.hit) => last.at < last.entry_expires
    /\ ( /\ calls >= 2
         /\ cache_enabled
         /\ prev.returned.success
         /\ prev.entry_expires # NoEntry
         /\ last.force_layer = "none"
         /\ KeyOf[last.query] = KeyOf[prev.query]
         /\ last.at >= prev.entry_expires )
       => /\ ~last.hit
          /\ ~StaleInMemory(KeyOf[last.query], last.at)
          /\ ~StaleOnDisk(KeyOf[last.query], last.at)

\* C9 witness: the entry was on disk and in memory, its TTL elapsed, and the
\* read that missed removed it from both tiers (the live attempt then failed)
C9_Witness ==
    /\ calls >= 2
    /\ cache_enabled
    /\ prev.epoch = last.epoch
    /\ prev.write = "written"
    /\ last.force_layer = "none"
    /\ KeyOf[last.query] = KeyOf[prev.query]
    /\ last.at >= prev.entry_expires
    /\ ~last.hit
    /\ ~last.returned.success
    /\ ~DictHas(memory_cache, KeyOf[last.query])
    /\ KeyOf[last.query] \notin DOMAIN disk

\* C10 - Quota skip: when the usage tracker refuses a query and the text is
\* not in the knowledge service's own cache, the wolfram attempt sends no HTTP
\* request, leaves the usage counters unchanged and hands back a failure, and
\* the executor goes on to the next backend of the plan.
C10_QuotaSkip ==
    [][ ( /\ calls' = calls + 1
          /\ \E i \in 1..Len(last'.attempted) : last'.attempted[i].layer = "wolfram"
          /\ ~can_make_query(wolfram.usage, wolfram_dev_mode)
          /\ WolframKeyOf[last'.query] \notin DOMAIN wolfram.cache_data )
        => /\ network_calls' = network_calls
           /\ last'.net = 0
           /\ wolfram'.usage = wolfram.usage
           /\ \A i \in 1..Len(last'.attempted) :
                (last'.attempted[i].layer = "wolfram")
                  => /\ ~last'.attempted[i].out.none
                     /\ ~last'.attempted[i].out.success
                     /\ last'.attempted[i].out.result = "None"
           /\ \A p \in 1..Len(last'.order) :
                (last'.order[p] = "wolfram" /\ p < Len(last'.order))
                  => \E i \in 1..Len(last'.attempted) :
                        last'.attempted[i].layer = last'.order[p + 1] ]_vars

\* C10 witness: wolfram was refused by the quota and llm was tried next
C10_Witness ==
    /\ calls > 0
    /\ last.net = 0
    /\ wolfram.stats.quota_blocked >= 1
    /\ \E i \in 1..Len(last.attempted) :
          /\ last.attempted[i].layer = "wolfram"
          /\ last.attempted[i].out.source = "quota_exceeded"
          /\ i < Len(last.attempted)
          /\ last.attempted[i + 1].layer = "llm"

(***************************************************************************)
(* Properties of the error reporting.                                      *)
(***************************************************************************)
\* solve(): the dict a live call returns when the handlers of attempted were
\* invoked with these outcomes (lines 271-330)
ReturnedFor(order, attempted, response_time, confidence) ==
    LET n == Len(attempted)
        routing == [confidence |-> confidence]
    IN  IF n > 0 /\ Succeeded(attempted[n].out)
        THEN LET p == CHOOSE q \in 1..Len(order) : order[q] = attempted[n].layer
             IN  FinalResult(attempted[n].layer, attempted[n].out, response_time,
                             SubSeq(order, 1, p), routing)
        ELSE FailureResult(response_time, order, routing)

\* the same attempts, the quota refusal replaced by a failed API request
QuotaAsApiError(attempted) ==
    [i \in 1..Len(attempted) |->
        IF attempted[i].out.source = "quota_exceeded"
        THEN [layer |-> attempted[i].layer, out |-> Failure("error")]
        ELSE attempted[i]]

\* the last call was resolved live and its wolfram attempt was refused by the quota
QuotaSkipped ==
    /\ Returned
    /\ ~last.hit
    /\ \E i \in 1..Len(last.attempted) :
          /\ last.attempted[i].layer = "wolfram"
          /\ last.attempted[i].out.source = "quota_exceeded"

\* the dict of a live call is the one ReturnedFor computes from its attempts
ReturnedForAgrees ==
    (Returned /\ ~last.hit)
      => last.returned = ReturnedFor(last.order, last.attempted,
                                     last.returned.response_time,
                                     last.returned.routing_confidence)

\* C11 - Quota exhaustion is a distinguished error kind: whenever the wolfram
\* backend is skipped because the quota is exhausted, the result solve returns
\* records it, so the result differs from the one returned when the same
\* attempts are made and wolfram fails generically (a failed API request).
C11_QuotaExceededRecorded ==
    QuotaSkipped
      => last.returned # ReturnedFor(last.order, QuotaAsApiError(last.attempted),
                                     last.returned.response_time,
                                     last.returned.routing_confidence)

\* every solve call made so far returned a result record
AlwaysReturns ==
    calls > 0 => Returned

\* a handler that raised (its _try_ method handed back None) counts as
\* failed: its layer stays in cascade_path, it is not the source of the
\* result, and the next usable layer of the plan, if any, is tried
RaisedBackendCountsAsFailed ==
    (Returned /\ ~last.hit)
      => \A i \in 1..Len(last.attempted) :
            last.attempted[i].out.none
              => LET p == CHOOSE q \in 1..Len(last.order) :
                             last.order[q] = last.attempted[i].layer
                 IN  /\ last.attempted[i].layer \in Range(last.returned.cascade_path)
                     /\ last.returned.source # last.attempted[i].layer
                     /\ (\E q \in (p + 1)..Len(last.order) :
                            last.order[q] # "wolfram" \/ wolfram_enabled)
                          => i < Len(last.attempted)

\* a result whose durable write failed is served from the memory tier by the
\* next call of the same engine for the text, made before the TTL elapses
FailedWriteServedFromMemory ==
    ( /\ SecondCall
      /\ prev.write \in {"open_failed", "dump_failed"}
      /\ KeyOf[last.query] = KeyOf[prev.query]
      /\ last.at < prev.entry_expires )
    => /\ last.hit
       /\ last.tier = "memory"
       /\ last.returned.result = prev.returned.result

\* C12 - Backend and cache failures never surface: every solve call returns a
\* result record and raises nothing, whatever a handler or the translator
\* raises and whatever durable-tier write fails; a backend that raised counts
\* as failed, stays in cascade_path and the cascade goes on; a result whose
\* durable write failed is still served from the memory tier.
C12_FailuresNeverSurface ==
    /\ AlwaysReturns
    /\ RaisedBackendCountsAsFailed
    /\ FailedWriteServedFromMemory

\* the last call was resolved live and returned a failure result
FailedLive ==
    Returned /\ ~last.hit /\ ~last.returned.success

\* C13 - Every failure result names the backends that were tried and, for
\* each of them, why it failed: every handler invoked is in cascade_path, and
\* the error is not a generic message, so two failure results whose backends
\* were tried with different outcomes carry different errors.
C13_FailureNamesBackendsAndReasons ==
    /\ FailedLive
         => \A i \in 1..Len(last.attempted) :
               last.attempted[i].layer \in Range(last.returned.cascade_path)
    /\ ( /\ calls >= 2
         /\ FailedLive
         /\ prev.returned # Raised /\ ~prev.hit /\ ~prev.returned.success
         /\ prev.attempted # last.attempted )
       => prev.returned.error # last.returned.error

(***************************************************************************)
(* Concurrent callers of CalculatorEngine.solve on one engine built with   *)
(* enable_cache = False.  A caller is pre-empted between any two           *)
(* statements; `stats[k] += 1` is a read of stats[k] followed by a write.  *)
(* The handlers are reduced to which layer of the plan, if any, succeeded. *)
(***************************************************************************)
\* what the caller-statistics steps leave alone
StatsFrame ==
    UNCHANGED <<wolfram_enabled, wolfram_dev_mode, cache_enabled, memory_cache,
                disk, cache_stats, query_frequency, wolfram, network_calls,
                now, advances, restarts, last, prev>>

\* caller t moves to statement label with the local variables loc
Goto(t, label, loc) ==
    /\ pc' = [pc EXCEPT ![t] = label]
    /\ local' = [local EXCEPT ![t] = loc]

\* the counter a success of layer increments (lines 276-281)
SuccessCounter(layer) ==
    CASE layer = "sympy" -> "sympy_successes"
      [] layer = "wolfram" -> "wolfram_successes"
      [] OTHER -> "llm_successes"

\* solve() line 229, the read of stats['total_queries']
CountQueryLoad(t, query) ==
    /\ pc[t] = "idle"
    /\ ~ReadsCache("none")
    /\ calls' = calls + 1
    /\ Goto(t, "count_store",
            [NoLocals EXCEPT !.op = "solve", !.query = query,
                             !.reg = stats.total_queries])
    /\ UNCHANGED stats
    /\ StatsFrame

\* solve() line 229, the write of stats['total_queries']
CountQueryStore(t) ==
    /\ pc[t] = "count_store"
    /\ stats' = [stats EXCEPT !.total_queries = local[t].reg + 1]
    /\ Goto(t, "cascade", local[t])
    /\ UNCHANGED calls
    /\ StatsFrame

\* solve() lines 231-272: the plan is walked; layer number p of it succeeds,
\* or none does (p = 0)
RunCascade(t, p) ==
    LET order == ExecutionOrder(RouteOf[local[t].query])
    IN  /\ pc[t] = "cascade"
        /\ p \in 0..Len(order)
        /\ p > 0 => (order[p] # "wolfram" \/ wolfram_enabled)
        /\ IF p = 0
           THEN Goto(t, "failure_load", local[t])
           ELSE Goto(t, "success_load",
                     [local[t] EXCEPT !.layer = order[p], !.path_len = p])
        /\ UNCHANGED <<stats, calls>>
        /\ StatsFrame

\* solve() lines 276-281, the read of the layer's success counter
SuccessLoad(t) ==
    /\ pc[t] = "success_load"
    /\ Goto(t, "success_store",
            [local[t] EXCEPT !.reg = stats[SuccessCounter(local[t].layer)]])
    /\ UNCHANGED <<stats, calls>>
    /\ StatsFrame

\* solve() lines 276-281, the write of the layer's success counter
SuccessStore(t) ==
    /\ pc[t] = "success_store"
    /\ stats' = [stats EXCEPT ![SuccessCounter(local[t].layer)] = local[t].reg + 1]
    /\ Goto(t, IF local[t].path_len > 1 THEN "triggered_load" ELSE "n_load",
            local[t])
    /\ UNCHANGED calls
    /\ StatsFrame

\* solve() lines 283-284, the read of stats['cascade_triggered']
TriggeredLoad(t) ==
    /\ pc[t] = "triggered_load"
    /\ Goto(t, "triggered_store",
            [local[t] EXCEPT !.reg = stats.cascade_triggered])
    /\ UNCHANGED <<stats, calls>>
    /\ StatsFrame

\* solve() lines 283-284, the write of stats['cascade_triggered']
TriggeredStore(t) ==
    /\ pc[t] = "triggered_store"
    /\ stats' = [stats EXCEPT !.cascade_triggered = local[t].reg + 1]
    /\ Goto(t, "n_load", local[t])
    /\ UNCHANGED calls
    /\ StatsFrame

\* solve() line 287: n = self.stats['total_queries']
AverageLoadN(t) ==
    /\ pc[t] = "n_load"
    /\ Goto(t, "avg_load", [local[t] EXCEPT !.n = stats.total_queries])
    /\ UNCHANGED <<stats, calls>>
    /\ StatsFrame

\* solve() lines 288-290, the read of stats['avg_response_time']
AverageLoad(t) ==
    /\ pc[t] = "avg_load"
    /\ Goto(t, "avg_store", [local[t] EXCEPT !.avg = stats.avg_response_time])
    /\ UNCHANGED <<stats, calls>>
    /\ StatsFrame

\* solve() lines 288-290, the write of stats['avg_response_time']; the
\* result is returned (lines 294-310, nothing is cached)
AverageStore(t, response_time) ==
    /\ pc[t] = "avg_store"
    /\ stats' = [stats EXCEPT !.avg_response_time =
                    UpdateAverage(local[t].avg, local[t].n, response_time)]
    /\ Goto(t, "done", local[t])
    /\ UNCHANGED calls
    /\ StatsFrame

\* solve() line 318, the read of stats['total_failures']
FailureLoad(t) ==
    /\ pc[t] = "failure_load"
    /\ Goto(t, "failure_store", [local[t] EXCEPT !.reg = stats.total_failures])
    /\ UNCHANGED <<stats, calls>>
    /\ StatsFrame

\* solve() line 318, the write of stats['total_failures']; the failure dict
\* is returned (lines 322-330)
FailureStore(t) ==
    /\ pc[t] = "failure_store"
    /\ stats' = [stats EXCEPT !.total_failures = local[t].reg + 1]
    /\ Goto(t, "done", local[t])
    /\ UNCHANGED calls
    /\ StatsFrame

\* CalculatorEngine(enable_wolfram = ..., enable_cache = False), no call made
InitStats ==
    /\ \E enable_wolfram \in BOOLEAN, handler_ok \in BOOLEAN :
         wolfram_enabled = (enable_wolfram /\ handler_ok)
    /\ wolfram_dev_mode = TRUE
    /\ cache_enabled = FALSE
    /\ wolfram \in {NewWolfram(u) : u \in InitialUsage}
    /\ stats = NewStats
    /\ memory_cache = << >>
    /\ disk = << >>
    /\ cache_stats = NewCacheStats
    /\ query_frequency = << >>
    /\ network_calls = 0
    /\ now = 0
    /\ calls = 0
    /\ advances = 0
    /\ restarts = 0
    /\ last = NoLast
    /\ prev = NoLast
    /\ pc = [t \in Callers |-> "idle"]
    /\ local = [t \in Callers |-> NoLocals]

NextStats ==
    \/ \E t \in Callers, query \in Queries : CountQueryLoad(t, query)
    \/ \E t \in Callers : CountQueryStore(t)
    \/ \E t \in Callers, p \in 0..Cardinality(Layers) : RunCascade(t, p)
    \/ \E t \in Callers : SuccessLoad(t)
    \/ \E t \in Callers : SuccessStore(t)
    \/ \E t \in Callers : TriggeredLoad(t)
    \/ \E t \in Callers : TriggeredStore(t)
    \/ \E t \in Callers : AverageLoadN(t)
    \/ \E t \in Callers, response_time \in ResponseTimes :
         AverageStore(t, response_time)
    \/ \E t \in Callers : AverageLoad(t)
    \/ \E t \in Callers : FailureLoad(t)
    \/ \E t \in Callers : FailureStore(t)

SpecStats ==
    InitStats /\ [][NextStats]_vars

\* every caller made its call and the call returned
AllReturned ==
    \A t \in Callers : pc[t] = "done"

\* C14 - Statistics counters update atomically: when several callers run
\* solve concurrently on one engine, no update is lost: once all calls have
\* returned, total_queries is the number of calls that were not cache hits
\* (here every call), and the per-backend success counters plus
\* total_failures sum to it.
C14_AtomicStatistics ==
    AllReturned
      => /\ stats.total_queries = calls
         /\ stats.sympy_successes + stats.wolfram_successes
              + stats.llm_successes + stats.total_failures = stats.total_queries

(***************************************************************************)
(* Concurrent callers of QueryCache.get and QueryCache.set on one cache.   *)
(* A caller is pre-empted between any two accesses of the shared           *)
(* memory_cache dict; QueryCache holds no lock.                            *)
(***************************************************************************)
\* the number of get and set calls made on the shared cache
MaxCacheOps ==
    4

\* the texts the concurrent callers use: three different fingerprints
CacheQueries ==
    {Q_deriv, Q_prove, Q_convert}

\* the result dict the callers store
StoredResult ==
    FinalResult("llm", Success("llm_a", "None", "llm"), 7, <<"llm">>,
                [confidence |-> 95])

\* what the cache steps leave alone
CacheFrame ==
    UNCHANGED <<wolfram_enabled, wolfram_dev_mode, cache_enabled, stats,
                query_frequency, wolfram, network_calls, now, advances,
                restarts, last, prev>>

\* the call of caller t returns
Return(t) ==
    Goto(t, "idle", NoLocals)

\* the call of caller t ends with an exception
Raise(t, exception) ==
    Goto(t, "failed", [local[t] EXCEPT !.error = exception])

\* QueryCache.set lines 131-147: the fingerprint and the entry
CacheSetBegin(t, query) ==
    /\ pc[t] = "idle"
    /\ calls < MaxCacheOps
    /\ calls' = calls + 1
    /\ Goto(t, "add_check",
            [NoLocals EXCEPT
               !.op = "set", !.query = query, !.key = KeyOf[query],
               !.entry = [query |-> query, result |-> StoredResult,
                          cached_at |-> now, last_accessed |-> now,
                          expires_at |-> now + TtlOf[query]]])
    /\ UNCHANGED <<memory_cache, disk, cache_stats>>
    /\ CacheFrame

\* QueryCache.get lines 73-76: `if cache_key in self.memory_cache`
CacheGetBegin(t, query) ==
    /\ pc[t] = "idle"
    /\ calls < MaxCacheOps
    /\ calls' = calls + 1
    /\ Goto(t, IF DictHas(memory_cache, KeyOf[query]) THEN "get_load" ELSE "get_disk",
            [NoLocals EXCEPT !.op = "get", !.query = query, !.key = KeyOf[query]])
    /\ UNCHANGED <<memory_cache, disk, cache_stats>>
    /\ CacheFrame

\* QueryCache.get lines 77-79: entry = self.memory_cache[cache_key], which
\* raises KeyError when the key has gone, and _is_valid(entry)
GetLoad(t) ==
    /\ pc[t] = "get_load"
    /\ IF ~DictHas(memory_cache, local[t].key)
       THEN Raise(t, "KeyError")
       ELSE LET entry == DictGet(memory_cache, local[t].key)
            IN  Goto(t, IF _is_valid(entry, now) THEN "get_touch" ELSE "get_del",
                     [local[t] EXCEPT !.entry = entry])
    /\ UNCHANGED <<memory_cache, disk, cache_stats, calls>>
    /\ CacheFrame

\* QueryCache.get lines 80-86: the hit is counted, last_accessed is set on the
\* entry object (still the one the dict holds, unless it was replaced) and
\* entry['result'] is returned
GetTouch(t) ==
    /\ pc[t] = "get_touch"
    /\ cache_stats' = [cache_stats EXCEPT !.hits = @ + 1]
    /\ memory_cache' =
          IF /\ DictHas(memory_cache, local[t].key)
             /\ DictGet(memory_cache, local[t].key) = local[t].entry
          THEN DictSet(memory_cache, local[t].key,
                       [local[t].entry EXCEPT !.last_accessed = now])
          ELSE memory_cache
    /\ Return(t)
    /\ UNCHANGED <<disk, calls>>
    /\ CacheFrame

\* QueryCache.get lines 87-89: del self.memory_cache[cache_key], which raises
\* KeyError when the key has gone
GetDel(t) ==
    /\ pc[t] = "get_del"
    /\ IF ~DictHas(memory_cache, local[t].key)
       THEN Raise(t, "KeyError") /\ UNCHANGED memory_cache
       ELSE /\ memory_cache' = DictDel(memory_cache, local[t].key)
            /\ Goto(t, "get_disk", local[t])
    /\ UNCHANGED <<disk, cache_stats, calls>>
    /\ CacheFrame

\* QueryCache.get lines 91-120: the durable tier; a valid entry goes on to
\* _add_to_memory, an expired file is unlinked, anything else is a miss
GetDisk(t) ==
    LET key == local[t].key
    IN  /\ pc[t] = "get_disk"
        /\ IF key \in DOMAIN disk /\ ~disk[key].corrupt
                /\ _is_valid(disk[key].entry, now)
           THEN /\ cache_stats' = [cache_stats EXCEPT !.hits = @ + 1]
                /\ Goto(t, "add_check",
                        [local[t] EXCEPT
                           !.entry = [disk[key].entry EXCEPT !.last_accessed = now]])
                /\ UNCHANGED disk
           ELSE /\ cache_stats' = [cache_stats EXCEPT !.misses = @ + 1]
                /\ disk' = IF key \in DOMAIN disk /\ ~disk[key].corrupt
                           THEN [k \in DOMAIN disk \ {key} |-> disk[k]]
                           ELSE disk
                /\ Return(t)
        /\ UNCHANGED <<memory_cache, calls>>
        /\ CacheFrame

\* mutant: the eviction starts only when the tier is over its capacity
AddCheck_OverCapacity(t) ==
    /\ pc[t] = "add_check"
    /\ Goto(t, IF Len(memory_cache) > MaxMemoryEntries THEN "add_min" ELSE "add_store",
            local[t])
    /\ UNCHANGED <<memory_cache, disk, cache_stats, calls>>
    /\ CacheFrame

\* _add_to_memory line 190: `if len(self.memory_cache) >= self.max_memory_entries`
AddCheck(t) ==
    /\ pc[t] = "add_check"
    /\ Goto(t, IF Len(memory_cache) >= MaxMemoryEntries THEN "add_min" ELSE "add_store",
            local[t])
    /\ UNCHANGED <<memory_cache, disk, cache_stats, calls>>
    /\ CacheFrame

\* _add_to_memory lines 192-195: oldest_key = min(...), which raises
\* ValueError on an empty dict
AddMin(t) ==
    /\ pc[t] = "add_min"
    /\ IF memory_cache = << >>
       THEN Raise(t, "ValueError")
       ELSE Goto(t, "add_del", [local[t] EXCEPT !.oldest_key = OldestKey(memory_cache)])
    /\ UNCHANGED <<memory_cache, disk, cache_stats, calls>>
    /\ CacheFrame

\* _add_to_memory lines 197-198: del self.memory_cache[oldest_key], which
\* raises KeyError when the key has gone, and the eviction is counted
AddDel(t) ==
    /\ pc[t] = "add_del"
    /\ IF ~DictHas(memory_cache, local[t].oldest_key)
       THEN Raise(t, "KeyError") /\ UNCHANGED <<memory_cache, cache_stats>>
       ELSE /\ memory_cache' = DictDel(memory_cache, local[t].oldest_key)
            /\ cache_stats' = [cache_stats EXCEPT !.evictions = @ + 1]
            /\ Goto(t, "add_store", local[t])
    /\ UNCHANGED <<disk, calls>>
    /\ CacheFrame

\* _add_to_memory line 201: self.memory_cache[cache_key] = entry; get then
\* returns entry['result'] (line 106), set goes on to the durable tier
AddStore(t) ==
    /\ pc[t] = "add_store"
    /\ memory_cache' = DictSet(memory_cache, local[t].key, local[t].entry)
    /\ IF local[t].op = "set" THEN Goto(t, "disk_write", local[t]) ELSE Return(t)
    /\ UNCHANGED <<disk, cache_stats, calls>>
    /\ CacheFrame

\* QueryCache.set lines 152-161: the file is written and the save counted
DiskWrite(t) ==
    /\ pc[t] = "disk_write"
    /\ disk' = (local[t].key :> [corrupt |-> FALSE, entry |-> local[t].entry]) @@ disk
    /\ cache_stats' = [cache_stats EXCEPT !.saves = @ + 1]
    /\ Return(t)
    /\ UNCHANGED <<memory_cache, calls>>
    /\ CacheFrame

\* QueryCache.__init__ over an empty cache directory
InitCache ==
    /\ wolfram_enabled = FALSE
    /\ wolfram_dev_mode = TRUE
    /\ cache_enabled = TRUE
    /\ wolfram = NewWolfram([total_queries_used |-> 0, dev_queries_used |-> 0,
                             prod_queries_used |-> 0, history |-> << >>])
    /\ stats = NewStats
    /\ memory_cache = << >>
    /\ disk = << >>
    /\ cache_stats = NewCacheStats
    /\ query_frequency = << >>
    /\ network_calls = 0
    /\ now = 0
    /\ calls = 0
    /\ advances = 0
    /\ restarts = 0
    /\ last = NoLast
    /\ prev = NoLast
    /\ pc = [t \in Callers |-> "idle"]
    /\ local = [t \in Callers |-> NoLocals]

NextCache ==
    \/ \E t \in Callers, query \in CacheQueries : CacheSetBegin(t, query)
    \/ \E t \in Callers, query \in CacheQueries : CacheGetBegin(t, query)
    \/ \E t \in Callers : GetLoad(t)
    \/ \E t \in Callers : GetTouch(t)
    \/ \E t \in Callers : GetDel(t)
    \/ \E t \in Callers : GetDisk(t)
    \/ \E t \in Callers : AddCheck(t)
    \/ \E t \in Callers : AddMin(t)
    \/ \E t \in Callers : AddDel(t)
    \/ \E t \in Callers : AddStore(t)
    \/ \E t \in Callers : DiskWrite(t)
    \/ \E hours \in AdvanceSteps : Advance(hours)

SpecCache ==
    InitCache /\ [][NextCache]_vars

\* the memory tier holds at most max_memory_entries entries
MemoryTierBounded ==
    Len(memory_cache) <= MaxMemoryEntries

\* no call of a concurrent caller ended with an exception
NoCallFailed ==
    \A t \in Callers : pc[t] # "failed"

\* C15 - The memory tier's eviction bookkeeping is mutually exclusive: under
\* any interleaving of concurrent get and set calls on one cache, the memory
\* tier never holds more than max_memory_entries entries and no call fails
\* with an error caused by the interleaving.
C15_MemoryTierMutualExclusion ==
    /\ MemoryTierBounded
    /\ NoCallFailed

(***************************************************************************)
(* CalculatorEngine.solve with backends that may not answer, on an engine  *)
(* built with enable_cache = False.  An attempt is a call into the         *)
(* handler: the caller waits until the handler answers or its timeout      *)
(* fires.  The statistics are updated in one step.                         *)
(***************************************************************************)
\* whether the attempt of layer is bounded: requests.get(..., timeout =
\* TIMEOUT_SECONDS) in _query_simple and _query_short, subprocess.run(...,
\* timeout = 300) in LLMHandler.process_query; SymPyHandler.process_query
\* computes in the calling thread with no limit
HasTimeout(layer) ==
    layer \in {"wolfram", "llm"}

\* what the handler called does: it answers with a success, answers with a
\* failure (or raises), or never answers by itself
BackendBehaviours ==
    {"succeeds", "fails", "hangs"}

\* the layer the loop of solve() is at
CurrentLayer(t) ==
    ExecutionOrder(RouteOf[local[t].query])[local[t].n]

\* the loop of solve() has layers left
InLoop(t) ==
    /\ pc[t] = "loop"
    /\ local[t].n <= Len(ExecutionOrder(RouteOf[local[t].query]))

\* solve() lines 219-245: the call is counted and the plan built
SolveBegin(t, query) ==
    /\ pc[t] = "idle"
    /\ ~ReadsCache("none")
    /\ calls' = calls + 1
    /\ stats' = [stats EXCEPT !.total_queries = @ + 1]
    /\ Goto(t, "loop", [NoLocals EXCEPT !.op = "solve", !.query = query, !.n = 1])
    /\ StatsFrame

\* solve() lines 258-261: the disabled wolfram layer is passed over
SkipDisabled(t) ==
    /\ InLoop(t)
    /\ CurrentLayer(t) = "wolfram" /\ ~wolfram_enabled
    /\ Goto(t, "loop", [local[t] EXCEPT !.n = @ + 1])
    /\ UNCHANGED <<stats, calls>>
    /\ StatsFrame

\* solve() lines 252-269: the handler of the layer is called
CallBackend(t, behaviour) ==
    /\ InLoop(t)
    /\ CurrentLayer(t) # "wolfram" \/ wolfram_enabled
    /\ Goto(t, "waiting",
            [local[t] EXCEPT !.layer = CurrentLayer(t), !.backend = behaviour])
    /\ UNCHANGED <<stats, calls>>
    /\ StatsFrame

\* the handler answers with a success: solve() lines 272-310
BackendSucceeds(t, response_time) ==
    /\ pc[t] = "waiting"
    /\ local[t].backend = "succeeds"
    /\ stats' = StatsOnSuccess(stats, local[t].layer,
                               SubSeq(ExecutionOrder(RouteOf[local[t].query]),
                                      1, local[t].n),
                               response_time)
    /\ Goto(t, "done", local[t])
    /\ UNCHANGED calls
    /\ StatsFrame

\* the handler answers with a failure: solve() lines 312-314
BackendFails(t) ==
    /\ pc[t] = "waiting"
    /\ local[t].backend = "fails"
    /\ Goto(t, "loop", [local[t] EXCEPT !.n = @ + 1])
    /\ UNCHANGED <<stats, calls>>
    /\ StatsFrame

\* the timeout of the attempt fires and the handler answers with a failure
BackendTimesOut(t) ==
    /\ pc[t] = "waiting"
    /\ local[t].backend = "hangs"
    /\ HasTimeout(local[t].layer)
    /\ Goto(t, "loop", [local[t] EXCEPT !.n = @ + 1])
    /\ UNCHANGED <<stats, calls>>
    /\ StatsFrame

\* solve() lines 316-330: every layer failed
AllFailed(t) ==
    /\ pc[t] = "loop"
    /\ local[t].n > Len(ExecutionOrder(RouteOf[local[t].query]))
    /\ stats' = [stats EXCEPT !.total_failures = @ + 1]
    /\ Goto(t, "done", local[t])
    /\ UNCHANGED calls
    /\ StatsFrame

\* the steps caller t can take inside its call
CallStep(t) ==
    \/ SkipDisabled(t)
    \/ \E behaviour \in BackendBehaviours : CallBackend(t, behaviour)
    \/ \E response_time \in ResponseTimes : BackendSucceeds(t, response_time)
    \/ BackendFails(t)
    \/ BackendTimesOut(t)
    \/ AllFailed(t)

NextBlocking ==
    \/ \E t \in Callers, query \in Queries : SolveBegin(t, query)
    \/ \E t \in Callers : CallStep(t)

SpecBlocking ==
    InitStats /\ [][NextBlocking]_vars

\* C16 - Every solve call eventually returns: every backend attempt (sympy,
\* wolfram, llm) carries a hard timeout, so the call of a caller never waits
\* without a step left to take: a backend that hangs is abandoned as a
\* failed attempt and the cascade goes on or ends in failure.
C16_EverySolveReturns ==
    \A t \in Callers : pc[t] \in {"idle", "done"} \/ ENABLED CallStep(t)

(***************************************************************************)
(* The router and the TTL policy as functions of the query text: the       *)
(* texts are built from a vocabulary of words, one space between two       *)
(* words, and each function is applied to every text.                      *)
(***************************************************************************)
MaxWords ==
    3

\* words with and without markers, keywords, operators and '='
RouterWords ==
    { <<"p","r","o","v","e">>,
      <<"W","h","y">>,
      <<"s","h","o","w">>,
      <<"t","h","a","t">>,
      <<"s","o","l","v","e">>,
      <<"f","a","c","t","o","r">>,
      <<"c","o","n","v","e","r","t">>,
      <<"c","o","m","p","a","r","e">>,
      <<"2","+","2">>,
      <<"x","=","1">> }

RECURSIVE JoinWords(_)
\* ' '.join(ws)
JoinWords(ws) ==
    IF Len(ws) = 0 THEN << >>
    ELSE IF Len(ws) = 1 THEN ws[1]
    ELSE ws[1] \o <<" ">> \o JoinWords(Tail(ws))

\* the texts of one to MaxWords words
RouterTexts ==
    UNION {{JoinWords(ws) : ws \in [1..n -> RouterWords]} : n \in 1..MaxWords}

\* the routing and the TTL of every text, computed once
RouteOfText ==
    [q \in RouterTexts |-> route_query(q)]

TtlOfText ==
    [q \in RouterTexts |-> SmartTTL(q)]

\* the three keyword scores route_query computes (lines 83-85)
KeywordScore(layer, query) ==
    CASE layer = "sympy" -> Score(SYMPY_KEYWORDS, Lower(query))
      [] layer = "wolfram" -> Score(WOLFRAM_KEYWORDS, Lower(query))
      [] OTHER -> Score(LLM_KEYWORDS, Lower(query))

\* what the router and the TTL policy leave alone
RouterFrame ==
    UNCHANGED <<wolfram_enabled, wolfram_dev_mode, cache_enabled, stats,
                memory_cache, disk, cache_stats, query_frequency, wolfram,
                network_calls, now, advances, restarts, last, prev, calls>>

\* a call of MathQueryRouter.route_query(query) by caller t
RouteQuery(t, query) ==
    /\ Goto(t, "routed", [NoLocals EXCEPT !.op = "route_query", !.query = query,
                                          !.routing = RouteOfText[query]])
    /\ RouterFrame

\* SmartCache.set(query, result) by caller t, result answered by backend:
\* the choice of ttl_hours (lines 319-333)
ChooseTTL(t, query, backend) ==
    /\ Goto(t, "ttl_chosen", [NoLocals EXCEPT !.op = "set", !.query = query,
                                              !.backend = backend,
                                              !.ttl_hours = TtlOfText[query]])
    /\ RouterFrame

\* no call has been made yet
NoCallYet ==
    \A u \in Callers : pc[u] = "idle"

\* one function is applied to one text in a run
NextRouter ==
    \/ NoCallYet /\ \E t \in Callers, query \in RouterTexts : RouteQuery(t, query)
    \/ NoCallYet /\ \E t \in Callers, query \in RouterTexts, backend \in Layers : ChooseTTL(t, query, backend)

SpecRouter ==
    InitStats /\ [][NextRouter]_vars

\* caller t has a routing of a text with a proof or explanation marker
RoutedWithMarker(t) ==
    /\ pc[t] = "routed"
    /\ \E m \in PROOF_MARKERS : Contains(m, Lower(local[t].query))

\* C17 - Proof/explanation override: for every text that contains one of the
\* markers prove, proof, explain, why, show that (in any case), route_query
\* returns primary llm, an empty fallback_order and confidence 0.95,
\* whatever the keyword scores of the three backends are.
C17_ProofOverride ==
    \A t \in Callers :
        RoutedWithMarker(t)
          => local[t].routing =
               [primary |-> "llm", fallback_order |-> << >>, confidence |-> 95]

\* a text with a marker on which sympy has the highest keyword score was routed
C17_Witness ==
    \E t \in Callers :
        /\ RoutedWithMarker(t)
        /\ KeywordScore("sympy", local[t].query) > KeywordScore("llm", local[t].query)
        /\ KeywordScore("sympy", local[t].query) > KeywordScore("wolfram", local[t].query)
        /\ local[t].routing.primary = "llm"

\* caller t has a routing of a text on which neither override applies
RoutedByScore(t) ==
    /\ pc[t] = "routed"
    /\ ~AnyIn(PROOF_MARKERS, Lower(local[t].query))
    /\ ~_is_word_problem(local[t].query)

\* the primary of the routing of caller t has the highest keyword score
PrimaryIsArgMax(t) ==
    \A layer \in Layers :
        KeywordScore(local[t].routing.primary, local[t].query)
          >= KeywordScore(layer, local[t].query)

\* the enabled backends other than primary, in the priority sympy > wolfram > llm
RemainingEnabled(primary) ==
    LET Remains(layer) == layer # primary /\ layer \in EnabledBackends
    IN  SelectSeq(<<"sympy", "wolfram", "llm">>, Remains)

\* C18 - Scored routing: for every text on which no override applies,
\* route_query picks as primary the backend with the highest keyword score,
\* and fallback_order is the sequence of all the remaining enabled backends in
\* the priority sympy > wolfram > llm, without the primary.
C18_ScoredRouting ==
    \A t \in Callers :
        RoutedByScore(t)
          => /\ PrimaryIsArgMax(t)
             /\ local[t].routing.fallback_order
                  = RemainingEnabled(local[t].routing.primary)

\* the text has a proof or explanation marker of the TTL policy
HasShortMarker(query) ==
    \E m \in SHORT_TTL_MARKERS : Contains(m, Lower(query))

\* the text is pure arithmetic: an operator present and no '='
PureArithmetic(query) ==
    /\ \E op \in ARITHMETIC_OPS : Contains(op, query)
    /\ ~Contains(<<"=">>, query)

\* the TTL, in hours, the policy assigns to a text
PolicyTTL(query) ==
    IF HasShortMarker(query) THEN 24
    ELSE IF PureArithmetic(query) THEN 7 * 24
    ELSE 3 * 24

\* on the texts that are not both marked and pure arithmetic, the TTL chosen
\* is the one of the policy
TTLAgreesOffOverlap ==
    \A t \in Callers :
        (/\ pc[t] = "ttl_chosen"
         /\ ~(HasShortMarker(local[t].query) /\ PureArithmetic(local[t].query)))
          => local[t].ttl_hours = PolicyTTL(local[t].query)

\* C19 - TTL policy: the TTL of an entry is chosen at write time from the
\* query text only, whichever backend answered: 24 hours for every text with
\* a marker (prove, explain, why), 7 days for pure-arithmetic text (an
\* operator present, no '='), 3 days for every other text.
C19_TTLPolicy ==
    \A t \in Callers :
        pc[t] = "ttl_chosen" => local[t].ttl_hours = PolicyTTL(local[t].query)

(***************************************************************************)
(* QueryCache used by one caller at a time: get, set and clear calls that  *)
(* never overlap.                                                          *)
(***************************************************************************)
\* the values of older_than_hours the caller passes to clear
OlderThanHours ==
    {12, 48}

\* QueryCache.clear(), older_than_hours = None (lines 210-217): the memory
\* tier is emptied and every file of the cache directory is unlinked
ClearAll(t) ==
    /\ pc[t] = "idle"
    /\ calls < MaxCacheOps
    /\ calls' = calls + 1
    /\ memory_cache' = << >>
    /\ disk' = << >>
    /\ UNCHANGED <<cache_stats, pc, local>>
    /\ CacheFrame

\* QueryCache.clear(older_than_hours) (lines 218-246): the entries cached
\* before the cutoff leave the memory tier, and their files are unlinked; a
\* file that cannot be read stays
ClearOlder(t, older_than_hours) ==
    LET cutoff == now - older_than_hours
        Kept(e) == ~(e.entry.cached_at < cutoff)
        old_files == {k \in DOMAIN disk :
                        ~disk[k].corrupt /\ disk[k].entry.cached_at < cutoff}
    IN  /\ pc[t] = "idle"
        /\ calls < MaxCacheOps
        /\ calls' = calls + 1
        /\ memory_cache' = SelectSeq(memory_cache, Kept)
        /\ disk' = [k \in DOMAIN disk \ old_files |-> disk[k]]
        /\ UNCHANGED <<cache_stats, pc, local>>
        /\ CacheFrame

\* no caller other than t is inside a call
Alone(t) ==
    \A u \in Callers \ {t} : pc[u] = "idle"

NextCacheSingle ==
    \/ \E t \in Callers, query \in CacheQueries : Alone(t) /\ CacheSetBegin(t, query)
    \/ \E t \in Callers, query \in CacheQueries : Alone(t) /\ CacheGetBegin(t, query)
    \/ \E t \in Callers : Alone(t) /\ ClearAll(t)
    \/ \E t \in Callers, h \in OlderThanHours : Alone(t) /\ ClearOlder(t, h)
    \/ \E t \in Callers : GetLoad(t)
    \/ \E t \in Callers : GetTouch(t)
    \/ \E t \in Callers : GetDel(t)
    \/ \E t \in Callers : GetDisk(t)
    \/ \E t \in Callers : AddCheck(t)
    \/ \E t \in Callers : AddMin(t)
    \/ \E t \in Callers : AddDel(t)
    \/ \E t \in Callers : AddStore(t)
    \/ \E t \in Callers : DiskWrite(t)
    \/ \E hours \in AdvanceSteps : Advance(hours)

SpecCacheSingle ==
    InitCache /\ [][NextCacheSingle]_vars

\* C20 - The memory tier is bounded: with max_memory_entries >= 1, after any
\* sequence of get (promotions from the durable tier included), set and clear
\* calls made by one caller at a time, and at every step inside such a call,
\* the memory tier holds at most max_memory_entries entries.
C20_MemoryTierBounded ==
    MaxMemoryEntries >= 1 => Len(memory_cache) <= MaxMemoryEntries

\* the tier is full after two evictions, the second one made by a get that
\* promoted an entry from the durable tier
C20_Witness ==
    /\ \A t \in Callers : pc[t] = "idle"
    /\ cache_stats.evictions >= 2
    /\ cache_stats.hits >= 1
    /\ Len(memory_cache) = MaxMemoryEntries

(***************************************************************************)
(* Claims C21 - C30.                                                       *)
(***************************************************************************)
\* this step is a restart
IsRestart ==
    restarts' = restarts + 1

\* this step is a call that reads the cache for the text of an unexpired
\* entry the call before it wrote to the durable tier, before a restart
ReadsEntryWrittenBeforeRestart ==
    /\ calls' = calls + 1
    /\ calls > 0
    /\ last.epoch < last'.epoch
    /\ last.write = "written"
    /\ last'.cache_read
    /\ KeyOf[last'.query] = KeyOf[last.query]
    /\ now < last.entry_expires

\* C21 - A restart preserves only the durable tier: the new cache instance
\* starts with an empty memory tier and zeroed statistics and the files
\* untouched; a get for an unexpired entry written before the restart is a
\* hit, answered from the durable tier with the stored payload, and that hit
\* promotes the entry into the memory tier.
C21_RestartPreservesDurableTier ==
    [][/\ IsRestart
            => /\ memory_cache' = << >>
               /\ cache_stats' = NewCacheStats
               /\ disk' = disk
       /\ ReadsEntryWrittenBeforeRestart
            => /\ last'.hit
               /\ last'.tier = "disk"
               /\ [last'.returned EXCEPT
                      !.from_cache = last.returned.from_cache,
                      !.response_time = last.returned.response_time]
                    = last.returned
               /\ DictHas(memory_cache', KeyOf[last'.query])
               /\ cache_stats'.hits = 1]_vars

\* after a restart, a call was answered from the durable tier and its entry
\* is in the memory tier
C21_Witness ==
    /\ calls = MaxCalls
    /\ restarts > 0
    /\ prev.epoch < last.epoch
    /\ prev.write = "written"
    /\ last.hit /\ last.tier = "disk"
    /\ DictHas(memory_cache, KeyOf[last.query])

\* every call that reached the network but the ones in which both API
\* requests failed is followed by one usage record
RecordedUnlessBothApisFailed ==
    [][(calls' = calls + 1 /\ last'.net > 0
          /\ ~(\E i \in 1..Len(last'.attempted) :
                  last'.attempted[i].out.source = "error"))
         => wolfram'.usage.total_queries_used
              = wolfram.usage.total_queries_used + 1]_vars

\* C22 - Usage is recorded after every real call: a solve call whose
\* knowledge-service query sent at least one network request adds one to
\* total_queries_used, whether the remote call succeeded or failed, and a
\* call that sent none adds nothing.
C22_UsageRecordedAfterRealCall ==
    [][calls' = calls + 1
         => wolfram'.usage.total_queries_used
              = wolfram.usage.total_queries_used
                  + (IF last'.net > 0 THEN 1 ELSE 0)]_vars

(***************************************************************************)
(* QueryTranslator.  The rules are the regular expressions of __init__ in  *)
(* the order translate tries them, each written as the literal text it     *)
(* matches when the words of the query are separated by one space; group 1 *)
(* of every rule is the rest of the text.  The rules that need a word no   *)
(* text of the model contains (the limit rules, "find ...", "what is ...") *)
(* cannot match and are left out.                                          *)
(***************************************************************************)
DIGITS ==
    {"0", "1", "2", "3", "4", "5", "6", "7", "8", "9"}

\* str.isalpha() / [a-zA-Z] on one character
IsLetter(c) ==
    \E i \in 1..Len(LOWER) : LOWER[i] = c \/ UPPER[i] = c

\* the regular expression class \w on one character
IsWordChar(c) ==
    IsLetter(c) \/ c \in DIGITS \/ c = "_"

\* the rules of translate, in the order they are tried
TRANSLATE_RULES ==
    << [text |-> <<"s","e","c","o","n","d"," ","d","e","r","i","v","a","t","i","v","e"," ","o","f"," ">>, op |-> "second_derivative"],
       [text |-> <<"2","n","d"," ","d","e","r","i","v","a","t","i","v","e"," ","o","f"," ">>, op |-> "second_derivative"],
       [text |-> <<"d","2","/","d","x","2"," ">>, op |-> "second_derivative"],
       [text |-> <<"t","h","i","r","d"," ","d","e","r","i","v","a","t","i","v","e"," ","o","f"," ">>, op |-> "third_derivative"],
       [text |-> <<"d","e","r","i","v","a","t","i","v","e"," ","o","f"," ">>, op |-> "derivative"],
       [text |-> <<"d","i","f","f","e","r","e","n","t","i","a","t","e"," ">>, op |-> "derivative"],
       [text |-> <<"d","/","d","x"," ">>, op |-> "derivative"],
       [text |-> <<"d","e","r","i","v","e"," ">>, op |-> "derivative"],
       [text |-> <<"i","n","t","e","g","r","a","l"," ","o","f"," ">>, op |-> "integral"],
       [text |-> <<"i","n","t","e","g","r","a","t","e"," ">>, op |-> "integral"],
       [text |-> <<"U+222B">>, op |-> "integral"],
       [text |-> <<"a","n","t","i","d","e","r","i","v","a","t","i","v","e"," ","o","f"," ">>, op |-> "integral"],
       [text |-> <<"f","a","c","t","o","r"," ">>, op |-> "factor"],
       [text |-> <<"f","a","c","t","o","r","i","z","e"," ">>, op |-> "factor"],
       [text |-> <<"f","a","c","t","o","r","i","s","e"," ">>, op |-> "factor"],
       [text |-> <<"e","x","p","a","n","d"," ">>, op |-> "expand"],
       [text |-> <<"e","x","p","a","n","d"," ","o","u","t"," ">>, op |-> "expand"],
       [text |-> <<"m","u","l","t","i","p","l","i","c","a","t","i","o","n"," ","o","f"," ">>, op |-> "expand"],
       [text |-> <<"s","i","m","p","l","i","f","y"," ">>, op |-> "simplify"],
       [text |-> <<"r","e","d","u","c","e"," ">>, op |-> "simplify"],
       [text |-> <<"s","i","m","p","l","i","f","i","c","a","t","i","o","n"," ","o","f"," ">>, op |-> "simplify"],
       [text |-> <<"s","o","l","v","e"," ">>, op |-> "solve"] >>

\* _clean_expression: the filler words, in the order they are removed
REMOVE_WORDS ==
    << <<"t","h","e">>, <<"o","f">>, <<"w","i","t","h">>,
       <<"r","e","s","p","e","c","t">>, <<"t","o">>, <<"f","o","r">>,
       <<"f","u","n","c","t","i","o","n">>, <<"e","q","u","a","t","i","o","n">>,
       <<"e","x","p","r","e","s","s","i","o","n">>, <<"p","l","e","a","s","e">>,
       <<"f","i","n","d">>, <<"w","h","a","t">>, <<"i","s">>, <<"a","r","e">>,
       <<"c","a","l","c","u","l","a","t","e">>, <<"c","o","m","p","u","t","e">>,
       <<"d","e","t","e","r","m","i","n","e">> >>

\* _clean_expression: the text replacements, in dict order
REPLACEMENTS ==
    << [text |-> <<"s","q","u","a","r","e","d">>, symbol |-> <<"*","*","2">>],
       [text |-> <<"c","u","b","e","d">>, symbol |-> <<"*","*","3">>],
       [text |-> <<" ","t","i","m","e","s"," ">>, symbol |-> <<"*">>],
       [text |-> <<" ","p","l","u","s"," ">>, symbol |-> <<"+">>],
       [text |-> <<" ","m","i","n","u","s"," ">>, symbol |-> <<"-">>],
       [text |-> <<" ","d","i","v","i","d","e","d"," ","b","y"," ">>, symbol |-> <<"/">>],
       [text |-> <<" ","o","v","e","r"," ">>, symbol |-> <<"/">>] >>

RECURSIVE ReplaceFrom(_, _, _, _)
\* str.replace(text, symbol), from position i on
ReplaceFrom(text, symbol, s, i) ==
    LET n == Len(text)
    IN  IF i > Len(s) THEN << >>
        ELSE IF i + n - 1 <= Len(s) /\ SubSeq(s, i, i + n - 1) = text
        THEN symbol \o ReplaceFrom(text, symbol, s, i + n)
        ELSE <<s[i]>> \o ReplaceFrom(text, symbol, s, i + 1)

\* QueryTranslator._clean_expression: strip, rstrip('?'), the filler words
\* removed as whole words (re.sub with \b, IGNORECASE), ' '.join(split()),
\* the text replacements, strip
_clean_expression(expr) ==
    LET RECURSIVE RStrip(_)
        RStrip(s) ==
            IF Len(s) > 0 /\ s[Len(s)] = "?"
            THEN RStrip(SubSeq(s, 1, Len(s) - 1)) ELSE s
        RECURSIVE RemoveWordFrom(_, _, _)
        RemoveWordFrom(word, s, i) ==
            LET n == Len(word)
            IN  IF i > Len(s) THEN << >>
                ELSE IF /\ i + n - 1 <= Len(s)
                        /\ Lower(SubSeq(s, i, i + n - 1)) = word
                        /\ (i = 1 \/ ~IsWordChar(s[i - 1]))
                        /\ (i + n > Len(s) \/ ~IsWordChar(s[i + n]))
                THEN RemoveWordFrom(word, s, i + n)
                ELSE <<s[i]>> \o RemoveWordFrom(word, s, i + 1)
        RECURSIVE RemoveWords(_, _)
        RemoveWords(s, k) ==
            IF k > Len(REMOVE_WORDS) THEN s
            ELSE RemoveWords(RemoveWordFrom(REMOVE_WORDS[k], s, 1), k + 1)
        RECURSIVE ReplaceAll(_, _)
        ReplaceAll(s, k) ==
            IF k > Len(REPLACEMENTS) THEN s
            ELSE ReplaceAll(ReplaceFrom(REPLACEMENTS[k].text,
                                        REPLACEMENTS[k].symbol, s, 1), k + 1)
        no_marks == RStrip(Strip(expr))
        no_words == RemoveWords(no_marks, 1)
        spaced == Strip(CollapseFrom(no_words, 1))
    IN  Strip(ReplaceAll(spaced, 1))

\* _to_sympy_syntax: the function names kept as calls, in list order
KNOWN_FUNCTIONS ==
    << <<"s","i","n">>, <<"c","o","s">>, <<"t","a","n">>, <<"s","e","c">>,
       <<"c","s","c">>, <<"c","o","t">>, <<"a","s","i","n">>, <<"a","c","o","s">>,
       <<"a","t","a","n">>, <<"s","i","n","h">>, <<"c","o","s","h">>,
       <<"t","a","n","h">>, <<"l","o","g">>, <<"l","n">>, <<"e","x","p">>,
       <<"s","q","r","t">>, <<"a","b","s">>, <<"d","i","f","f">>,
       <<"i","n","t","e","g","r","a","t","e">>, <<"l","i","m","i","t">>,
       <<"s","o","l","v","e">>, <<"f","a","c","t","o","r">>,
       <<"e","x","p","a","n","d">>, <<"s","i","m","p","l","i","f","y">> >>

\* QueryTranslator._to_sympy_syntax: '^' becomes '**'; '*' goes between a
\* digit and a letter ((\d)([a-zA-Z])) and between ')' and a word character
\* (\)(\w)); in the while loop a known function call is copied and a single
\* letter or digit before '(' gets a '*'
_to_sympy_syntax(expr) ==
    LET RECURSIVE InsertStars(_, _, _)
        InsertStars(kind, s, i) ==
            LET hit == /\ i < Len(s)
                       /\ IF kind = "digit_letter"
                          THEN s[i] \in DIGITS /\ IsLetter(s[i + 1])
                          ELSE s[i] = ")" /\ IsWordChar(s[i + 1])
            IN  IF i > Len(s) THEN << >>
                ELSE IF hit
                THEN <<s[i], "*", s[i + 1]>> \o InsertStars(kind, s, i + 2)
                ELSE <<s[i]>> \o InsertStars(kind, s, i + 1)
        FunctionsAt(s, i) ==
            {k \in 1..Len(KNOWN_FUNCTIONS) :
                LET f == KNOWN_FUNCTIONS[k]
                IN  /\ i + Len(f) <= Len(s)
                    /\ SubSeq(s, i, i + Len(f) - 1) = f
                    /\ s[i + Len(f)] = "("}
        IsAlnum(ch) == IsLetter(ch) \/ ch \in DIGITS
        RECURSIVE ImplicitCalls(_, _)
        ImplicitCalls(s, i) ==
            IF i > Len(s) THEN << >>
            ELSE IF FunctionsAt(s, i) # {} /\ (i = 1 \/ ~IsWordChar(s[i - 1]))
            THEN LET k == CHOOSE a \in FunctionsAt(s, i) :
                              \A b \in FunctionsAt(s, i) : a <= b
                     n == Len(KNOWN_FUNCTIONS[k]) + 1
                 IN  SubSeq(s, i, i + n - 1) \o ImplicitCalls(s, i + n)
            ELSE IF /\ i < Len(s)
                    /\ IsAlnum(s[i])
                    /\ s[i + 1] = "("
                    /\ (i = 1 \/ ~IsAlnum(s[i - 1]))
            THEN <<s[i], "*", "(">> \o ImplicitCalls(s, i + 2)
            ELSE <<s[i]>> \o ImplicitCalls(s, i + 1)
        powers == ReplaceFrom(<<"^">>, <<"*","*">>, expr, 1)
        digits == InsertStars("digit_letter", powers, 1)
        parens == InsertStars("paren_word", digits, 1)
    IN  ImplicitCalls(parens, 1)

\* QueryTranslator._extract_variable: the first single letter standing as a
\* word of its own that is not e or i, else 'x'
_extract_variable(expr) ==
    LET singles == {i \in 1..Len(expr) :
                      /\ IsLetter(expr[i])
                      /\ (i = 1 \/ ~IsWordChar(expr[i - 1]))
                      /\ (i = Len(expr) \/ ~IsWordChar(expr[i + 1]))
                      /\ Lower(<<expr[i]>>) \notin {<<"e">>, <<"i">>}}
    IN  IF singles = {} THEN <<"x">>
        ELSE <<expr[CHOOSE i \in singles : \A j \in singles : i <= j]>>

\* the f-string of sympy_format for an operation
SympyFormat(op, sympy_expr, var) ==
    CASE op = "derivative" ->
           <<"d","i","f","f","(">> \o sympy_expr \o <<","," ">> \o var \o <<")">>
      [] op = "second_derivative" ->
           <<"d","i","f","f","(">> \o sympy_expr \o <<","," ">> \o var \o <<","," ","2",")">>
      [] op = "third_derivative" ->
           <<"d","i","f","f","(">> \o sympy_expr \o <<","," ">> \o var \o <<","," ","3",")">>
      [] op = "integral" ->
           <<"i","n","t","e","g","r","a","t","e","(">> \o sympy_expr \o <<","," ">> \o var \o <<")">>
      [] op = "solve" ->
           <<"s","o","l","v","e","(">> \o sympy_expr \o <<","," ">> \o var \o <<")">>
      [] op = "simplify" ->
           <<"s","i","m","p","l","i","f","y","(">> \o sympy_expr \o <<")">>
      [] op = "factor" ->
           <<"f","a","c","t","o","r","(">> \o sympy_expr \o <<")">>
      [] op = "expand" ->
           <<"e","x","p","a","n","d","(">> \o sympy_expr \o <<")">>
      [] OTHER -> sympy_expr

\* QueryTranslator.translate (llm_format left out): the first rule whose
\* re.search matches the lowercased text decides; group 1 is what follows
\* the leftmost match, at least one character
translate(query) ==
    LET stripped == Strip(query)
        query_lower == Lower(stripped)
        MatchStarts(text) ==
            {i \in 1..(Len(query_lower) - Len(text)) :
                SubSeq(query_lower, i, i + Len(text) - 1) = text}
        Group1(text) ==
            LET i == CHOOSE j \in MatchStarts(text) :
                         \A k \in MatchStarts(text) : j <= k
            IN  SubSeq(query_lower, i + Len(text), Len(query_lower))
        matching == {k \in 1..Len(TRANSLATE_RULES) :
                        MatchStarts(TRANSLATE_RULES[k].text) # {}}
    IN  IF matching = {}
        THEN LET expr == _clean_expression(stripped)
             IN  [operation |-> "general", expression |-> expr,
                  variable |-> _extract_variable(expr), original |-> stripped,
                  sympy_format |-> _to_sympy_syntax(expr)]
        ELSE LET k == CHOOSE a \in matching : \A b \in matching : a <= b
                 op == TRANSLATE_RULES[k].op
                 expr == _clean_expression(Strip(Group1(TRANSLATE_RULES[k].text)))
                 var == _extract_variable(expr)
             IN  [operation |-> op, expression |-> expr, variable |-> var,
                  original |-> stripped,
                  sympy_format |-> SympyFormat(op, _to_sympy_syntax(expr), var)]

\* the operation words of the texts given to the translator ("" = none)
TranslatorCommands ==
    { << >>,
      <<"d","e","r","i","v","a","t","i","v","e"," ","o","f"," ">>,
      <<"s","e","c","o","n","d"," ","d","e","r","i","v","a","t","i","v","e"," ","o","f"," ">>,
      <<"i","n","t","e","g","r","a","t","e"," ">>,
      <<"s","o","l","v","e"," ">>,
      <<"f","a","c","t","o","r"," ">> }

\* the operands: "x^2", "x^3", "2x", "cos(x)", "2x + 5 = 13",
\* "x^2 + 5x + 6", "X^2", "3y^2", "x(x+1)", "the function"
TranslatorOperands ==
    { <<"x","^","2">>,
      <<"x","^","3">>,
      <<"2","x">>,
      <<"c","o","s","(","x",")">>,
      <<"2","x"," ","+"," ","5"," ","="," ","1","3">>,
      <<"x","^","2"," ","+"," ","5","x"," ","+"," ","6">>,
      <<"X","^","2">>,
      <<"3","y","^","2">>,
      <<"x","(","x","+","1",")">>,
      <<"t","h","e"," ","f","u","n","c","t","i","o","n">> }

\* the texts given to the translator: an operation word and an operand
TranslatorTexts ==
    {c \o e : c \in TranslatorCommands, e \in TranslatorOperands}

\* the translation of every text, computed once
TranslationOf ==
    [q \in TranslatorTexts |-> translate(q)]

(***************************************************************************)
(* SymPyHandler.process_query as CalculatorEngine._try_sympy calls it.     *)
(***************************************************************************)
\* SymPyHandler.can_handle
can_handle(query) ==
    LET query_lower == Lower(query)
        negative_indicators ==
            { <<"w","o","r","d"," ","p","r","o","b","l","e","m">>,
              <<"s","t","o","r","y">>, <<"p","r","o","v","e">>,
              <<"e","x","p","l","a","i","n"," ","w","h","y">>,
              <<"h","o","w"," ","d","o","e","s">>,
              <<"w","h","a","t"," ","d","o","e","s"," ","i","t"," ","m","e","a","n">>,
              <<"i","n","t","e","r","p","r","e","t">>, <<"g","r","a","p","h">>,
              <<"p","l","o","t">>, <<"d","r","a","w">> }
        positive_indicators ==
            { <<"s","o","l","v","e">>, <<"d","e","r","i","v","a","t","i","v","e">>,
              <<"i","n","t","e","g","r","a","t","e">>,
              <<"d","i","f","f","e","r","e","n","t","i","a","t","e">>,
              <<"e","x","p","a","n","d">>, <<"f","a","c","t","o","r">>,
              <<"s","i","m","p","l","i","f","y">>,
              <<"c","a","l","c","u","l","a","t","e">>, <<"d","/","d","x">>,
              <<"d","y","/","d","x">>, <<"i","n","t","e","g","r","a","l">>,
              <<"w","h","a","t"," ","i","s">>, <<"c","o","m","p","u","t","e">>,
              <<"e","v","a","l","u","a","t","e">>, <<"g","c","d">>, <<"l","c","m">>,
              <<"m","o","d">>, <<"c","h","o","o","s","e">>,
              <<"f","a","c","t","o","r","i","a","l">> }
        math_symbols ==
            { <<"x">>, <<"=">>, <<"+">>, <<"-">>, <<"*">>, <<"/">>, <<"^">>,
              <<"s","i","n">>, <<"c","o","s">>, <<"t","a","n">> }
    IN  /\ ~AnyIn(negative_indicators, query_lower)
        /\ AnyIn(positive_indicators, query_lower) \/ AnyIn(math_symbols, query_lower)

\* the method SymPyHandler.process_query hands the text to (lines 659-673)
SympyMethod(query) ==
    LET query_lower == Lower(query)
        has(w) == Contains(w, query_lower)
    IN  IF has(<<"d","e","r","i","v","a","t","i","v","e">>)
             \/ has(<<"d","i","f","f","e","r","e","n","t","i","a","t","e">>)
             \/ has(<<"d","/","d","x">>)
        THEN "compute_derivative"
        ELSE IF has(<<"i","n","t","e","g","r","a","t","e">>)
                  \/ has(<<"i","n","t","e","g","r","a","l">>)
        THEN "compute_integral"
        ELSE IF has(<<"e","x","p","a","n","d">>) \/ has(<<"f","a","c","t","o","r">>)
                  \/ has(<<"s","i","m","p","l","i","f","y">>)
        THEN "simplify_expression"
        ELSE IF has(<<"s","o","l","v","e">>)
                  \/ (Contains(<<"=">>, query) /\ ~has(<<"a","n","d">>))
        THEN "solve_equation"
        ELSE IF has(<<" ","a","n","d"," ">>) /\ Contains(<<"=">>, query)
        THEN "solve_equation"
        ELSE IF has(<<"w","h","a","t"," ","i","s">>)
                  \/ has(<<"c","a","l","c","u","l","a","t","e">>)
                  \/ has(<<"c","o","m","p","u","t","e">>)
        THEN "evaluate_expression"
        ELSE "solve_equation"

\* what SymPy computes: the degree in x of the polynomial each operand of the
\* model renders to ("x**2", "x**3", "2*x", "x**2 + 5*x + 6", "3*y**2",
\* "x*(x+1)"); cos(x) is no polynomial and is not listed
DegreeInX ==
    (<<"x","*","*","2">> :> 2) @@ (<<"x","*","*","3">> :> 3)
      @@ (<<"2","*","x">> :> 1)
      @@ (<<"x","*","*","2"," ","+"," ","5","*","x"," ","+"," ","6">> :> 2)
      @@ (<<"3","*","y","*","*","2">> :> 0)
      @@ (<<"x","*","(","x","+","1",")">> :> 2)

\* parse_expr(text) is a number other than zero: text is the derivative, of
\* the order that equals its degree, of a polynomial
IsNonZeroNumber(text) ==
    \E e \in DOMAIN DegreeInX :
        \/ DegreeInX[e] = 1 /\ text = SympyFormat("derivative", e, <<"x">>)
        \/ DegreeInX[e] = 2 /\ text = SympyFormat("second_derivative", e, <<"x">>)
        \/ DegreeInX[e] = 3 /\ text = SympyFormat("third_derivative", e, <<"x">>)

\* SymPyHandler.solve_equation on a text without ':' and without a "solve "
\* or "f(...) =" part: the text itself is the equation when it has '=' or an
\* operator (_extract_equation); without '=' it is parsed and only a number
\* other than zero is a success (lines 222-230); with '=' the two sides are
\* parsed, and the outcome of sp.solve is left open
solve_equation(query) ==
    IF ~(Contains(<<"=">>, query) \/ AnyIn(ARITHMETIC_OPS, query))
    THEN {NoneOutcome}
    ELSE IF Contains(<<"=">>, query)
    THEN {NoneOutcome, Success("None", "sym_fmt", "sympy")}
    ELSE IF IsNonZeroNumber(query)
    THEN {Success("sym_float", "sym_fmt", "sympy")}
    ELSE {NoneOutcome}

\* CalculatorEngine._try_sympy: the text of a recognised operation is
\* replaced by its sympy_format, then SymPyHandler.process_query; the
\* methods other than solve_equation are left open
_try_sympy(query) ==
    LET translated == TranslationOf[query]
        query_to_process == IF translated.operation # "general"
                            THEN translated.sympy_format ELSE query
    IN  IF ~can_handle(query_to_process) THEN {NoneOutcome}
        ELSE IF SympyMethod(query_to_process) = "solve_equation"
        THEN solve_equation(query_to_process)
        ELSE SympyOutcomes

TrySympyOf ==
    [q \in TranslatorTexts |-> _try_sympy(q)]

\* a call of QueryTranslator.translate(query) by caller t
Translate(t, query) ==
    /\ Goto(t, "translated", [NoLocals EXCEPT !.op = "translate", !.query = query,
                                              !.translated = TranslationOf[query]])
    /\ RouterFrame

\* a call of CalculatorEngine._try_sympy(query) by caller t
TrySympy(t, query, out) ==
    /\ out \in TrySympyOf[query]
    /\ Goto(t, "tried", [NoLocals EXCEPT !.op = "_try_sympy", !.query = query,
                                         !.translated = TranslationOf[query],
                                         !.out = out])
    /\ RouterFrame

\* one function is applied to one text in a run
NextTranslator ==
    \/ NoCallYet /\ \E t \in Callers, query \in TranslatorTexts : Translate(t, query)
    \/ NoCallYet /\ \E t \in Callers, query \in TranslatorTexts, out \in SympyOutcomes \cup {Success("sym_float", "sym_fmt", "sympy")} : TrySympy(t, query, out)

SpecTranslator ==
    InitStats /\ [][NextTranslator]_vars

\* the translation part of the scenario: "derivative of x^2" is translated
\* to operation derivative, expression "x^2", variable "x", and the router
\* makes sympy the primary backend without an override
DerivativeIsTranslated ==
    \A t \in Callers :
        (pc[t] \in {"translated", "tried"} /\ local[t].query = Q_deriv)
          => /\ local[t].translated.operation = "derivative"
             /\ local[t].translated.expression = <<"x","^","2">>
             /\ local[t].translated.variable = <<"x">>
             /\ RouteOf[Q_deriv].primary = "sympy"
             /\ RouteOf[Q_deriv].confidence \notin {90, 95}

\* C23 - Scenario: solve("derivative of x^2") on an engine with an empty
\* cache translates to operation derivative, expression "x^2", variable
\* "x"; no router override triggers and the primary backend is sympy; the
\* symbolic backend succeeds on the rendering it is given, which is what
\* makes cascade_path == ['sympy'] and the result cached for the next call.
C23_DerivativeScenario ==
    \A t \in Callers :
        (pc[t] = "tried" /\ local[t].query = Q_deriv)
          => /\ local[t].translated.operation = "derivative"
             /\ local[t].translated.expression = <<"x","^","2">>
             /\ local[t].translated.variable = <<"x">>
             /\ RouteOf[Q_deriv].primary = "sympy"
             /\ RouteOf[Q_deriv].confidence \notin {90, 95}
             /\ Succeeded(local[t].out)

\* C27 - A translated intent never has an empty expression unless its
\* operation is general: whenever translate returns an operation other than
\* general, the returned expression is non-empty after cleaning, also when
\* the matched operand consists only of filler words.
C27_ExpressionNeverEmpty ==
    \A t \in Callers :
        (pc[t] = "translated" /\ local[t].translated.operation # "general")
          => local[t].translated.expression # << >>

\* the translation holds a non-empty expression whenever the operand keeps a
\* character that is not part of a filler word
ExpressionEmptyOnlyForFillers ==
    \A t \in Callers :
        (pc[t] = "translated" /\ local[t].translated.operation # "general"
           /\ local[t].translated.expression = << >>)
          => \E c \in TranslatorCommands :
                local[t].query = c \o <<"t","h","e"," ","f","u","n","c","t","i","o","n">>

\* the five texts of test_query_translation are classified and rendered as
\* the test expects
TestCasesTranslate ==
    LET D == <<"d","e","r","i","v","a","t","i","v","e"," ","o","f"," ">>
        x2 == <<"x","^","2">>
        x3 == <<"x","^","3">>
        cosx == <<"c","o","s","(","x",")">>
        lin == <<"2","x"," ","+"," ","5"," ","="," ","1","3">>
        quad == <<"x","^","2"," ","+"," ","5","x"," ","+"," ","6">>
        expected(q) ==
            IF q = D \o x2 THEN <<"derivative", <<"d","i","f","f","(","x","*","*","2",","," ","x",")">> >>
            ELSE IF q = <<"i","n","t","e","g","r","a","t","e"," ">> \o cosx
            THEN <<"integral", <<"i","n","t","e","g","r","a","t","e","(","c","o","s","(","x",")",","," ","x",")">> >>
            ELSE IF q = <<"s","o","l","v","e"," ">> \o lin
            THEN <<"solve", <<"s","o","l","v","e","(","2","*","x"," ","+"," ","5"," ","="," ","1","3",","," ","x",")">> >>
            ELSE IF q = <<"s","e","c","o","n","d"," ">> \o D \o x3
            THEN <<"second_derivative", <<"d","i","f","f","(","x","*","*","3",","," ","x",","," ","2",")">> >>
            ELSE IF q = <<"f","a","c","t","o","r"," ">> \o quad
            THEN <<"factor", <<"f","a","c","t","o","r","(","x","*","*","2"," ","+"," ","5","*","x"," ","+"," ","6",")">> >>
            ELSE << >>
    IN  \A t \in Callers :
            (pc[t] = "translated" /\ expected(local[t].query) # << >>)
              => /\ local[t].translated.operation = expected(local[t].query)[1]
                 /\ local[t].translated.sympy_format = expected(local[t].query)[2]

\* C28 - Translation of recognised operations: for an operand E,
\* "derivative of E", "integrate E", "solve E", "second derivative of E" and
\* "factor E" are classified derivative, integral, solve, second_derivative
\* and factor, and sympy_format is diff(E', v), integrate(E', v),
\* solve(E', v), diff(E', v, 2) and factor(E'), where E' is E with '^'
\* replaced by '**' and '*' inserted between a digit and the letter that
\* follows it, and v is the inferred variable.
C28_RecognisedOperations ==
    LET RECURSIVE Rendered(_, _)
        Rendered(E, i) ==
            IF i > Len(E) THEN << >>
            ELSE (IF E[i] = "^" THEN <<"*","*">>
                  ELSE IF E[i] \in DIGITS /\ i < Len(E) /\ IsLetter(E[i + 1])
                  THEN <<E[i], "*">>
                  ELSE <<E[i]>>) \o Rendered(E, i + 1)
        D == <<"d","e","r","i","v","a","t","i","v","e"," ","o","f"," ">>
        Commands ==
            { <<D, "derivative">>,
              <<(<<"i","n","t","e","g","r","a","t","e"," ">>), "integral">>,
              <<(<<"s","o","l","v","e"," ">>), "solve">>,
              <<(<<"s","e","c","o","n","d"," ">> \o D), "second_derivative">>,
              <<(<<"f","a","c","t","o","r"," ">>), "factor">> }
    IN  \A t \in Callers : \A c \in Commands : \A E \in TranslatorOperands :
            (pc[t] = "translated" /\ local[t].query = c[1] \o E)
              => /\ local[t].translated.operation = c[2]
                 /\ local[t].translated.sympy_format
                      = SympyFormat(c[2], Rendered(E, 1), local[t].translated.variable)

(***************************************************************************)
(* LLMHandler: the extraction of the answer from the output of the model.  *)
(* A pattern is a set of literal alternatives (compared without case), a   *)
(* sequence of greedy skips [chars, min, many], the characters that end    *)
(* the captured group, and the characters one of which has to follow the   *)
(* group ({} when nothing has to).  The equation pattern and the           *)
(* "Step \d+" pattern are left out: no output of the model holds '=' or    *)
(* the word Step.                                                          *)
(***************************************************************************)
\* the list `patterns` of LLMHandler._extract_answer, in its order
ANSWER_PATTERNS ==
    LET ws(min) == [chars |-> WHITESPACE, min |-> min, many |-> TRUE]
        opt(c) == [chars |-> {c}, min |-> 0, many |-> FALSE]
        conclusion(word) ==
            [name |-> "conclusion", alternatives |-> {word},
             skip |-> <<opt(","), ws(1)>>, stop |-> {"\n", "."}, follow |-> {".", "\n"}]
        marker(name, word) ==
            [name |-> name, alternatives |-> {word},
             skip |-> <<ws(0)>>, stop |-> {"\n"}, follow |-> {}]
    IN  << [name |-> "boxed", alternatives |-> {<<"\\","b","o","x","e","d","{">>},
            skip |-> << >>, stop |-> {"}"}, follow |-> {"}"}],
           marker("gsm8k", <<"#","#","#","#">>),
           [name |-> "answer",
            alternatives |-> { <<"t","h","e"," ","a","n","s","w","e","r"," ","i","s">>,
                               <<"a","n","s","w","e","r",":">>,
                               <<"f","i","n","a","l"," ","a","n","s","w","e","r",":">> },
            skip |-> <<ws(0), [chars |-> {":"}, min |-> 0, many |-> TRUE], ws(0),
                       opt("$"), opt("\\"), opt("["), ws(0)>>,
            stop |-> {"\\", "$", "\n"}, follow |-> {}],
           conclusion(<<"t","h","e","r","e","f","o","r","e">>),
           conclusion(<<"t","h","u","s">>),
           conclusion(<<"s","o">>),
           marker("solution", <<"s","o","l","u","t","i","o","n",":">>),
           marker("solution", <<"r","e","s","u","l","t",":">>) >>

\* re.search(pattern, text, re.IGNORECASE | re.MULTILINE): the group of the
\* leftmost match, or "None"
Search(pattern, text) ==
    LET lower == Lower(text)
        RECURSIVE Skip(_, _)
        Skip(j, k) ==
            IF k > Len(pattern.skip) THEN j
            ELSE LET e == pattern.skip[k]
                     run == {n \in 0..(Len(text) - j + 1) :
                                \A m \in j..(j + n - 1) : text[m] \in e.chars}
                     longest == CHOOSE n \in run : \A m \in run : m <= n
                     taken == IF e.many \/ longest = 0 THEN longest ELSE 1
                 IN  IF taken < e.min THEN 0 ELSE Skip(j + taken, k + 1)
        GroupEnd(j) ==
            LET ends == {m \in j..(Len(text) + 1) :
                            m = Len(text) + 1 \/ text[m] \in pattern.stop}
            IN  CHOOSE m \in ends : \A n \in ends : m <= n
        MatchAt(i) ==
            LET alts == {a \in pattern.alternatives :
                            /\ i + Len(a) - 1 <= Len(text)
                            /\ SubSeq(lower, i, i + Len(a) - 1) = a}
            IN  IF alts = {} THEN "None"
                ELSE LET a == CHOOSE a \in alts : TRUE
                         j == Skip(i + Len(a), 1)
                     IN  IF j = 0 THEN "None"
                         ELSE IF GroupEnd(j) = j THEN "None"
                         ELSE IF pattern.follow # {}
                                   /\ (GroupEnd(j) > Len(text)
                                         \/ text[GroupEnd(j)] \notin pattern.follow)
                         THEN "None"
                         ELSE SubSeq(text, j, GroupEnd(j) - 1)
        starts == {i \in 1..Len(text) : MatchAt(i) # "None"}
    IN  IF starts = {} THEN "None"
        ELSE MatchAt(CHOOSE i \in starts : \A j \in starts : i <= j)

\* LLMHandler._extract_answer: the first pattern of the list that matches
\* decides; the group is stripped, then stripped of '*', then of trailing '.'
_extract_answer(text) ==
    LET matching == {k \in 1..Len(ANSWER_PATTERNS) : Search(ANSWER_PATTERNS[k], text) # "None"}
        first == CHOOSE k \in matching : \A m \in matching : k <= m
        StripChars(s, chars, left) ==
            LET idx == {i \in 1..Len(s) : s[i] \notin chars}
            IN  IF idx = {} THEN << >>
                ELSE SubSeq(s, IF left THEN CHOOSE i \in idx : \A j \in idx : i <= j ELSE 1,
                               CHOOSE i \in idx : \A j \in idx : i >= j)
    IN  IF matching = {} THEN "None"
        ELSE StripChars(StripChars(Strip(Search(ANSWER_PATTERNS[first], text)), {"*"}, TRUE),
                        {"."}, FALSE)

\* lines a model writes: one for each marker, one without any
LLM_LINES ==
    << <<"T","h","e"," ","a","n","s","w","e","r"," ","i","s",":"," ","5">>,
       <<"\\","b","o","x","e","d","{","7","}">>,
       <<"#","#","#","#"," ","9">>,
       <<"T","h","e","r","e","f","o","r","e",","," ","3",".">>,
       <<"T","h","u","s"," ","4",".">>,
       <<"S","o"," ","6",".">>,
       <<"W","e"," ","a","d","d"," ","t","h","e"," ","n","u","m","b","e","r","s">> >>

\* full_output = result.stdout + "\n" + result.stderr with an empty stderr:
\* one line, or two different lines, of LLM_LINES
LLMOutputs ==
    {LLM_LINES[a] \o <<"\n">> : a \in 1..Len(LLM_LINES)}
      \cup {LLM_LINES[p[1]] \o <<"\n">> \o LLM_LINES[p[2]] \o <<"\n">> :
               p \in {q \in (1..Len(LLM_LINES)) \X (1..Len(LLM_LINES)) : q[1] # q[2]}}

ExtractedFrom ==
    [text \in LLMOutputs |-> _extract_answer(text)]

\* LLMHandler.process_query from the output of a run that returned 0
\* (lines 232-261); the counters of the handler are not part of the state
LLMProcessOutput(t, full_output) ==
    LET extracted == ExtractedFrom[full_output]
        answer == IF extracted = "None" THEN Strip(full_output) ELSE extracted
    IN  /\ Goto(t, "answered", [NoLocals EXCEPT !.op = "llm.process_query",
                                                !.full_output = full_output,
                                                !.out = Success(answer, "None", "llm")])
        /\ RouterFrame

NextLLM ==
    NoCallYet /\ \E t \in Callers, full_output \in LLMOutputs : LLMProcessOutput(t, full_output)

SpecLLM ==
    InitStats /\ [][NextLLM]_vars

\* the answer of the first extractor, in the order given by names, that
\* matches full_output; the stripped full output when none does
AnswerInOrder(names, full_output) ==
    LET RECURSIVE From(_)
        From(n) ==
            IF n > Len(names) THEN Strip(full_output)
            ELSE LET ks == {k \in 1..Len(ANSWER_PATTERNS) :
                               /\ ANSWER_PATTERNS[k].name = names[n]
                               /\ Search(ANSWER_PATTERNS[k], full_output) # "None"}
                 IN  IF ks = {} THEN From(n + 1)
                     ELSE Strip(Search(ANSWER_PATTERNS[CHOOSE k \in ks : \A m \in ks : k <= m],
                                       full_output))
    IN  From(1)

\* the extractors decide in the order of the list of the code: boxed, ####,
\* answer marker, concluding sentence, solution marker; without a match the
\* full output is the answer; the result is a success in every case
ExtractionFollowsListOrder ==
    \A t \in Callers :
        pc[t] = "answered"
          => /\ local[t].out.success
             /\ local[t].out.result
                  = AnswerInOrder(<<"boxed", "gsm8k", "answer", "conclusion", "solution">>,
                                  local[t].full_output)

\* C24 - Answer extraction order: the extractors are tried in the order
\* delimited final-answer marker ('The answer is:'), then structured-math
\* markers (\boxed{...}, ####), then concluding-sentence heuristics
\* (Therefore/Thus/So); the first that matches determines the answer, and
\* when none matches the full output is returned with success = true.
C24_ExtractionOrder ==
    \A t \in Callers :
        pc[t] = "answered"
          => /\ local[t].out.success
             /\ local[t].out.result
                  = AnswerInOrder(<<"answer", "boxed", "gsm8k", "conclusion">>,
                                  local[t].full_output)

\* a step of _add_to_memory by caller t that evicts an entry
Evicts(t) ==
    /\ pc[t] = "add_del"
    /\ Len(memory_cache') < Len(memory_cache)

\* an eviction happens in a full memory tier and takes an entry with the
\* smallest last_accessed
EvictsLeastRecentlyAccessed ==
    [][\A t \in Callers :
          Evicts(t)
            => /\ Len(memory_cache) >= MaxMemoryEntries
               /\ cache_stats'.evictions = cache_stats.evictions + 1
               /\ ~DictHas(memory_cache', local[t].oldest_key)
               /\ \A i \in 1..Len(memory_cache) :
                     DictGet(memory_cache, local[t].oldest_key).last_accessed
                       <= memory_cache[i].entry.last_accessed]_vars

\* C25 - Eviction happens only on overflow and takes the
\* least-recently-accessed entry: whenever storing an entry evicts one, the
\* memory tier would otherwise have exceeded max_memory_entries and the
\* evicted entry has the smallest last_accessed; in particular, storing a
\* key that is already in the memory tier evicts nothing.
C25_EvictionOnlyOnOverflow ==
    [][\A t \in Callers :
          Evicts(t)
            => /\ ~DictHas(memory_cache, local[t].key)
               /\ Len(memory_cache) + 1 > MaxMemoryEntries
               /\ \A i \in 1..Len(memory_cache) :
                     DictGet(memory_cache, local[t].oldest_key).last_accessed
                       <= memory_cache[i].entry.last_accessed]_vars

\* the step is a solve call that returns the failure record
FailingCall ==
    /\ calls' = calls + 1
    /\ last'.returned # Raised
    /\ ~last'.returned.success

\* C26 - Only successful resolutions are cached: a solve call that ends in
\* failure creates no entry in either cache tier, so a later identical call
\* is resolved live again and is never reported with from_cache = true.
C26_OnlySuccessesCached ==
    [][/\ FailingCall
          => /\ \A k \in DOMAIN disk' : k \in DOMAIN disk /\ disk'[k] = disk[k]
             /\ \A i \in 1..Len(memory_cache') :
                   /\ DictHas(memory_cache, memory_cache'[i].key)
                   /\ memory_cache'[i].entry
                        = DictGet(memory_cache, memory_cache'[i].key)
             /\ last'.write = "none"
       /\ (/\ calls' = calls + 1
           /\ calls > 0
           /\ last.returned # Raised
           /\ ~last.returned.success
           /\ last.cache_read
           /\ KeyOf[last'.query] = KeyOf[last.query])
          => /\ ~last'.hit
             /\ "from_cache" \in DOMAIN last'.returned => ~last'.returned.from_cache]_vars

\* a call failed and the identical call that followed was resolved live,
\* with nothing in either tier under its key
C26_Witness ==
    /\ calls = MaxCalls
    /\ prev.returned # Raised /\ ~prev.returned.success /\ prev.cache_read
    /\ KeyOf[last.query] = KeyOf[prev.query]
    /\ last.cache_read /\ ~last.hit
    /\ last.returned # Raised /\ ~last.returned.success
    /\ ~DictHas(memory_cache, KeyOf[last.query])
    /\ KeyOf[last.query] \notin DOMAIN disk

\* C29 - Statistics conservation: after any sequence of solve calls made
\* one at a time (forced or not, cached or not), total_queries ==
\* sympy_successes + wolfram_successes + llm_successes + total_failures, and
\* total_queries equals the number of calls that were not answered from the
\* cache: it grows by one with every such call and with no other.
C29_StatisticsConservation ==
    [][/\ stats'.total_queries
            = stats'.sympy_successes + stats'.wolfram_successes
                + stats'.llm_successes + stats'.total_failures
       /\ calls' = calls + 1
            => stats'.total_queries
                 = stats.total_queries + (IF last'.hit THEN 0 ELSE 1)]_vars

\* two calls were made, one resolved live and one answered from the cache,
\* and the live one is the only one counted
C29_Witness ==
    /\ calls = MaxCalls
    /\ restarts = 0
    /\ ~prev.hit /\ last.hit
    /\ stats.total_queries = 1
    /\ stats.sympy_successes + stats.wolfram_successes + stats.llm_successes = 1

\* the step is a hit in the memory tier that follows, in the same process,
\* the live call that stored the entry under the same key: the dict R that
\* call returned is the one QueryCache.set put in the entry (line 145 keeps
\* the reference), so R is the `result` of the entry of the memory tier
HitOnRecordReturnedBefore ==
    /\ calls' = calls + 1
    /\ calls > 0
    /\ last.returned # Raised /\ last.returned.success
    /\ ~last.hit /\ last.write # "none"
    /\ last'.hit /\ last'.tier = "memory"
    /\ last'.epoch = last.epoch
    /\ KeyOf[last'.query] = KeyOf[last.query]

\* the hit writes its two fields into the record the memory tier holds, and
\* returns that record
HitMarksStoredRecord ==
    [][HitOnRecordReturnedBefore
         => /\ DictGet(memory_cache, KeyOf[last.query]).result = last.returned
            /\ DictGet(memory_cache', KeyOf[last.query]).result = last'.returned
            /\ last'.returned.from_cache
            /\ last'.returned.response_time = CACHE_HIT_RESPONSE_TIME]_vars

\* C30 - A result already returned to a caller is not changed by later
\* calls: after solve(text) returns a live result R (from_cache = false,
\* measured response_time), a later cache hit for the same text leaves R's
\* from_cache and response_time unchanged; the hit returns its own record
\* instead of mutating the record shared with the memory tier.
C30_ReturnedResultImmutable ==
    [][HitOnRecordReturnedBefore
         => LET R == DictGet(memory_cache', KeyOf[last.query]).result
            IN  /\ R.from_cache = last.returned.from_cache
                /\ R.response_time = last.returned.response_time]_vars
====
